---------------------------- MODULE Spec2Model ----------------------------
(***************************************************************************)
(* SmartBudgetAI: transaction classification, savings-goal synthesis, the  *)
(* chat intent router and the pattern detector, modelled from the          *)
(* TypeScript sources.                                                     *)
(*                                                                         *)
(* Conventions                                                             *)
(*  - money is an integer number of Rappen (1 CHF = 100), so toFixed(2) is *)
(*    a formatting of an integer and no floating point is involved;        *)
(*  - text is a TLA+ string; includes / toLowerCase / the regular          *)
(*    expressions are computed on the characters;                          *)
(*  - a calendar day is the ISO string 'YYYY-MM-DD' the code stores, and   *)
(*    new Date(...) is the parse to a day number (days since 1970-01-01,   *)
(*    server clock in UTC);                                                *)
(*  - a JavaScript value of unknown type (a field of a parsed JSON reply,  *)
(*    a field of a request body) is a tagged record, see JUndef .. JNum.   *)
(***************************************************************************)
EXTENDS Integers, Sequences, FiniteSets, TLC

VARIABLES
    today,          \* the server's calendar day (ISO string), fixed during a run
    apiKey,         \* process.env.OPENAI_API_KEY holds a real key (not '', not 'mock')
    users,          \* table users: the rows with id and monthlyNetIncome
    goals,          \* table savings_goals, newest first (created_at descending)
    transactions,   \* table transactions, oldest first
    reply           \* the last request (or call) and what it returned

vars == <<today, apiKey, users, goals, transactions, reply>>

-----------------------------------------------------------------------------
(* Bounds of the model *)

MaxGoals == 2
MaxRules == 4
MaxTransactions == 2
MaxPatternTx == 3
\* deposits stop at this many hundred francs saved
MaxSavedHundreds == 4

-----------------------------------------------------------------------------
(* JavaScript values *)

JUndef == [t |-> "undefined"]
JNull == [t |-> "null"]
JBool(b) == [t |-> "boolean", b |-> b]
JStr(s) == [t |-> "string", s |-> s]
JNum(n) == [t |-> "number", n |-> n]

\* ToBoolean: undefined, null, false, "", 0 are falsy
Truthy(v) ==
    CASE v.t = "undefined" -> FALSE
      [] v.t = "null" -> FALSE
      [] v.t = "boolean" -> v.b
      [] v.t = "string" -> v.s # ""
      [] v.t = "number" -> v.n # 0
      [] v.t = "NaN" -> FALSE
      [] v.t = "array" -> TRUE

\* a || b
JOr(a, b) == IF Truthy(a) THEN a ELSE b

\* the number NaN, and v > n for a number v (false for NaN)
JNaN == [t |-> "NaN"]
NumGt(v, n) == v.t = "number" /\ v.n > n

-----------------------------------------------------------------------------
(* The texts of the model: what users type, and what the completion and   *)
(* the translation answer with                                            *)

\* the messages the users of the model send
SavingsUtterances ==
    {"I saved 200 at Thailand trip",
     "Ich habe 200 CHF für Thailand trip gespart",
     "Thailand trip ist erreicht",
     "Ich möchte 400 CHF für Ferien sparen",
     "Lösche das Sparziel Thailand trip",
     "Wie viel habe ich ausgegeben?"}

RuleUtterances ==
    {"Neue Regel für Thailand trip: Kein Take-away",
     "Regel loeschen: Regel 1",
     "Regel entfernen: Impulskäufe",
     "Bitte Thailand trip anpassen: 400 CHF bis März 2027",
     "Ich möchte 400 CHF für Ferien sparen"}

\* messages in which several detectors find their keywords
MixedUtterances ==
    {"Ich habe 200 CHF für Thailand trip gespart, bitte löschen",
     "Thailand trip ist erreicht, Sparziel löschen",
     "Neue Regel: Sparziel anpassen bis März",
     "Sparziel Thailand trip ist erreicht, 400 CHF anpassen",
     "Sparziel Thailand trip anpassen: 400 CHF",
     "Regel loeschen: Regel 1",
     "Ich möchte 400 CHF für Ferien sparen",
     "Wie viel habe ich ausgegeben?"}

\* messages that name a goal, name two, or name none
TargetUtterances ==
    {"Loesche ZUERICH REISE",
     "Lösche das Sparziel",
     "Ich habe 200 CHF gespart",
     "Ich habe 200 CHF für zürich reise gespart",
     "thailand trip und Zürich Reise sind erreicht",
     "Neue Regel: Kein Take-away",
     "Regel loeschen: Regel 1",
     "Zuerich Reise anpassen"}

Utterances == SavingsUtterances \cup RuleUtterances \cup MixedUtterances \cup TargetUtterances

\* the merchants of the transactions
SampleMerchants ==
    {"Coop", "Zalando", "Restaurant Adler", "Bargeld ATM", "Kiosk", "Lohn ACME AG"}

GoalTitles ==
    {"Thailand trip", "Trip to Thailand", "Neues Sparziel", "Thailand Ferien", "Zürich Reise"}

RuleTexts ==
    {"Jeden Monat 80 CHF aufs Sparkonto überweisen", "Impulskäufe vermeiden",
     "Kein Take-away", "Monatliches Budget einhalten", "Regelmäßig 100 CHF sparen",
     "Regelmäßig sparen", "Shopping maximal 300 CHF pro Monat",
     "Food Delivery maximal 2x pro Woche", "Vor jedem Kauf über 100 CHF: 24h Bedenkzeit",
     "Jeden Monat 200 CHF aufs Sparkonto überweisen", "Impulskäufe", "aufs Sparkonto"}

Texts == Utterances \cup SampleMerchants \cup GoalTitles \cup RuleTexts

-----------------------------------------------------------------------------
(* Text *)

CharAt(s, i) == SubSeq(s, i, i)

\* String.prototype.includes
Includes(s, k) ==
    \E i \in 1..(Len(s) - Len(k) + 1) : SubSeq(s, i, i + Len(k) - 1) = k

\* String.prototype.indexOf, 1-based, 0 when absent, searching from position from
IndexOfFrom(s, k, from) ==
    LET hits == {i \in from..(Len(s) - Len(k) + 1) : SubSeq(s, i, i + Len(k) - 1) = k}
    IN IF hits = {} THEN 0 ELSE CHOOSE i \in hits : \A j \in hits : i <= j

StartsWith(s, k) == Len(k) <= Len(s) /\ SubSeq(s, 1, Len(k)) = k

\* the letters that have a lower case among the characters the texts use
LowerCaseOf ==
    [c \in {"A", "B", "C", "D", "E", "F", "G", "H", "I", "J", "K", "L", "M", "N", "O",
            "P", "Q", "R", "S", "T", "U", "V", "W", "X", "Y", "Z", "Ä", "Ö", "Ü"} |->
        CASE c = "A" -> "a" [] c = "B" -> "b" [] c = "C" -> "c" [] c = "D" -> "d"
          [] c = "E" -> "e" [] c = "F" -> "f" [] c = "G" -> "g" [] c = "H" -> "h"
          [] c = "I" -> "i" [] c = "J" -> "j" [] c = "K" -> "k" [] c = "L" -> "l"
          [] c = "M" -> "m" [] c = "N" -> "n" [] c = "O" -> "o" [] c = "P" -> "p"
          [] c = "Q" -> "q" [] c = "R" -> "r" [] c = "S" -> "s" [] c = "T" -> "t"
          [] c = "U" -> "u" [] c = "V" -> "v" [] c = "W" -> "w" [] c = "X" -> "x"
          [] c = "Y" -> "y" [] c = "Z" -> "z"
          [] c = "Ä" -> "ä" [] c = "Ö" -> "ö" [] c = "Ü" -> "ü"]

LowerChar(c) == IF c \in DOMAIN LowerCaseOf THEN LowerCaseOf[c] ELSE c

RECURSIVE LowerText(_)
LowerText(s) ==
    IF s = "" THEN "" ELSE LowerChar(CharAt(s, 1)) \o LowerText(SubSeq(s, 2, Len(s)))

\* String.prototype.toLowerCase, computed once for each text of the model
LowerTexts == [s \in Texts |-> LowerText(s)]

toLowerCase(s) == IF s \in DOMAIN LowerTexts THEN LowerTexts[s] ELSE LowerText(s)

IsDigit(c) == c \in {"0", "1", "2", "3", "4", "5", "6", "7", "8", "9"}

\* \s of the regular expressions, on the characters the inputs use
IsSpace(c) == c = " "

DigitVal(c) ==
    CASE c = "0" -> 0 [] c = "1" -> 1 [] c = "2" -> 2 [] c = "3" -> 3 [] c = "4" -> 4
      [] c = "5" -> 5 [] c = "6" -> 6 [] c = "7" -> 7 [] c = "8" -> 8 [] c = "9" -> 9

DigitChar(n) ==
    CASE n = 0 -> "0" [] n = 1 -> "1" [] n = 2 -> "2" [] n = 3 -> "3" [] n = 4 -> "4"
      [] n = 5 -> "5" [] n = 6 -> "6" [] n = 7 -> "7" [] n = 8 -> "8" [] n = 9 -> "9"

AllDigits(s) == s # "" /\ \A i \in 1..Len(s) : IsDigit(CharAt(s, i))

\* the value of a string of decimal digits
RECURSIVE ParseNat(_)
ParseNat(s) ==
    IF s = "" THEN 0
    ELSE 10 * ParseNat(SubSeq(s, 1, Len(s) - 1)) + DigitVal(CharAt(s, Len(s)))

\* the decimal digits of a natural number
RECURSIVE NatToString(_)
NatToString(n) ==
    IF n < 10 THEN DigitChar(n) ELSE NatToString(n \div 10) \o DigitChar(n % 10)

\* the end of the run of digits that starts at position i (i - 1 when there is none)
RECURSIVE DigitRunEnd(_, _)
DigitRunEnd(s, i) ==
    IF i <= Len(s) /\ IsDigit(CharAt(s, i)) THEN DigitRunEnd(s, i + 1) ELSE i - 1

\* the end of the run of white space that starts at position i (i - 1 when there is none)
RECURSIVE SpaceRunEnd(_, _)
SpaceRunEnd(s, i) ==
    IF i <= Len(s) /\ IsSpace(CharAt(s, i)) THEN SpaceRunEnd(s, i + 1) ELSE i - 1

\* String.prototype.trim
RECURSIVE trim(_)
trim(s) ==
    IF s = "" THEN ""
    ELSE IF IsSpace(CharAt(s, 1)) THEN trim(SubSeq(s, 2, Len(s)))
    ELSE IF IsSpace(CharAt(s, Len(s))) THEN trim(SubSeq(s, 1, Len(s) - 1))
    ELSE s

\* Number.prototype.toFixed(2) of an amount held in Rappen
toFixed2(cents) ==
    LET a == IF cents < 0 THEN -cents ELSE cents
        frac == a % 100
    IN (IF cents < 0 THEN "-" ELSE "") \o NatToString(a \div 100) \o "."
       \o DigitChar(frac \div 10) \o DigitChar(frac % 10)

-----------------------------------------------------------------------------
(* Calendar days.  new Date('YYYY-MM-DD') is UTC midnight of that day; the   *)
(* model keeps the day number and, where the code compares with the current *)
(* instant, uses that "now" lies within the day today.                      *)

\* days since 1970-01-01 of a civil date
DaysFromCivil(y, m, d) ==
    LET yy == IF m <= 2 THEN y - 1 ELSE y
        era == yy \div 400
        yoe == yy - era * 400
        mp == IF m > 2 THEN m - 3 ELSE m + 9
        doy == (153 * mp + 2) \div 5 + d - 1
        doe == yoe * 365 + yoe \div 4 - yoe \div 100 + doy
    IN era * 146097 + doe - 719468

\* the civil date of a day number
CivilFromDays(z) ==
    LET zz == z + 719468
        era == zz \div 146097
        doe == zz - era * 146097
        yoe == (doe - doe \div 1460 + doe \div 36524 - doe \div 146096) \div 365
        doy == doe - (365 * yoe + yoe \div 4 - yoe \div 100)
        mp == (5 * doy + 2) \div 153
        d == doy - (153 * mp + 2) \div 5 + 1
        m == IF mp < 10 THEN mp + 3 ELSE mp - 9
    IN [y |-> yoe + era * 400 + (IF m <= 2 THEN 1 ELSE 0), m |-> m, d |-> d]

IsLeap(y) == (y % 4 = 0 /\ y % 100 # 0) \/ y % 400 = 0

DaysInMonth(y, m) ==
    IF m = 2 THEN (IF IsLeap(y) THEN 29 ELSE 28)
    ELSE IF m \in {4, 6, 9, 11} THEN 30 ELSE 31

\* the text is an ISO day 'YYYY-MM-DD' of the calendar
IsISODate(s) ==
    /\ Len(s) = 10
    /\ AllDigits(SubSeq(s, 1, 4)) /\ CharAt(s, 5) = "-"
    /\ AllDigits(SubSeq(s, 6, 7)) /\ CharAt(s, 8) = "-"
    /\ AllDigits(SubSeq(s, 9, 10))
    /\ ParseNat(SubSeq(s, 6, 7)) \in 1..12
    /\ ParseNat(SubSeq(s, 9, 10)) \in 1..DaysInMonth(ParseNat(SubSeq(s, 1, 4)), ParseNat(SubSeq(s, 6, 7)))

DateYear(s) == ParseNat(SubSeq(s, 1, 4))
DateMonth(s) == ParseNat(SubSeq(s, 6, 7))
DateDay(s) == ParseNat(SubSeq(s, 9, 10))

\* new Date(s).getTime() in days, for a text that is a date (IsISODate);
\* for any other text getTime() is NaN and every comparison with it is false
DayNumber(s) == DaysFromCivil(DateYear(s), DateMonth(s), DateDay(s))

\* the dates the requests and rows of the model carry
Dates ==
    {"2025-12-31", "2026-01-01", "2026-01-10", "2026-01-15", "2026-03-31", "2026-07-14",
     "2026-08-01", "2026-08-03", "2026-08-16", "2026-08-31", "2026-11-01", "2026-11-02",
     "2026-11-03", "2026-11-05", "2026-11-06", "2026-11-30", "2027-01-15", "2027-02-27",
     "2027-03-31", "2027-05-05", "2027-06-15", "2027-08-31", "2027-11-06"}

\* DayNumber, computed once for each date of the model
DayNumbers == [s \in Dates |-> DayNumber(s)]

DateParse(s) == IF s \in DOMAIN DayNumbers THEN DayNumbers[s] ELSE DayNumber(s)

Pad2(n) == DigitChar(n \div 10) \o DigitChar(n % 10)

\* date.toISOString().split('T')[0]
toISODate(z) ==
    LET c == CivilFromDays(z)
    IN NatToString(c.y) \o "-" \o Pad2(c.m) \o "-" \o Pad2(c.d)

\* date.getDay(): 0 is Sunday
getDay(z) == (z + 4) % 7

-----------------------------------------------------------------------------
(* The completion capability, lib/openai.ts.                                *)
(*                                                                          *)
(* A reply text is kept by what its readers do with it: they look for the   *)
(* first '{' .. last '}' (match(/\{[\s\S]*\}/)) and JSON.parse that part.   *)

JArr(a) == [t |-> "array", a |-> a]

\* a text in which the match hits and JSON.parse returns the object obj
Json(obj) == [kind |-> "json", obj |-> obj]
\* a text without an object literal
Text(s) == [kind |-> "text", s |-> s]
\* a text with braces that JSON.parse rejects
Malformed == [kind |-> "malformed"]
\* choices[0].message.content is null
NullContent == [kind |-> "null"]

\* the remote endpoint: the request fails (fetch rejects, a status that is not
\* ok, a body without choices), or it answers with a content
RemoteFails == [ok |-> FALSE]
RemoteAnswers(content) == [ok |-> TRUE, content |-> content]

\* the leading sentences of the system prompts; of a prompt the mock reads only
\* whether it holds the words 'classify', 'kategorisieren', 'Sparziel' or
\* 'savings goal', and in that the full prompts agree with these excerpts
ClassifyPrompt ==
    "Du bist ein KI-Experte für persönliche Finanzen. Deine Aufgabe ist es, Transaktionen zu analysieren und zu kategorisieren."
GoalPrompt ==
    "Du bist ein KI-Finanzcoach, der Nutzern hilft, ihre Sparziele zu definieren."
JustifyPrompt ==
    "Du bist ein Finanzcoach. Entscheide, ob ein Kauf ein Impulskauf ist."
TranslatePrompt ==
    "You are a translator. Translate the user text to English. Return only the translation."

MockClassification ==
    [category |-> JStr("Shopping"), isImpulse |-> JBool(TRUE),
     decisionLabel |-> JStr("unnecessary"),
     decisionExplanation |-> JStr("Spontaner Online-Kauf ohne vorherige Planung. Möglicherweise emotional motiviert.")]

MockGoal ==
    [goalTitle |-> JStr("Thailand Ferien"), targetAmount |-> JNum(250000),
     targetDate |-> JStr("2026-03-31"),
     rules |-> JArr(<<"Shopping maximal 300 CHF pro Monat",
                      "Food Delivery maximal 2x pro Woche",
                      "Vor jedem Kauf über 100 CHF: 24h Bedenkzeit",
                      "Jeden Monat 200 CHF aufs Sparkonto überweisen">>)]

\* what getMockResponse reads from the system prompt
ScanPrompt(systemPrompt) ==
    IF Includes(systemPrompt, "classify") \/ Includes(systemPrompt, "kategorisieren")
    THEN "classification"
    ELSE IF Includes(systemPrompt, "Sparziel") \/ Includes(systemPrompt, "savings goal")
    THEN "goal"
    ELSE "other"

\* ScanPrompt, computed once for each prompt of the model
ScannedPrompts ==
    [systemPrompt \in {ClassifyPrompt, GoalPrompt, JustifyPrompt, TranslatePrompt} |->
        ScanPrompt(systemPrompt)]

getMockResponse(systemPrompt, userPrompt) ==
    LET scanned == IF systemPrompt \in DOMAIN ScannedPrompts THEN ScannedPrompts[systemPrompt]
                   ELSE ScanPrompt(systemPrompt)
    IN IF scanned = "classification" THEN Json(MockClassification)
       ELSE IF scanned = "goal" THEN Json(MockGoal)
       ELSE Text("Mock response: "
                 \o SubSeq(userPrompt, 1, IF Len(userPrompt) < 50 THEN Len(userPrompt) ELSE 50))

\* callOpenAI never throws: without a key, and on any failure of the request,
\* it returns the mock response
callOpenAI(systemPrompt, userPrompt, remote) ==
    IF ~apiKey THEN getMockResponse(systemPrompt, userPrompt)
    ELSE IF ~remote.ok THEN getMockResponse(systemPrompt, userPrompt)
    ELSE remote.content

-----------------------------------------------------------------------------
(* Classification, lib/agents.ts *)

\* the keyword table of the fallback, in the order of the if-chain
FallbackRules ==
    << [kws |-> {"lohn", "gehalt", "salary", "payroll"}, category |-> "Lohn", byAmount |-> "no"],
       [kws |-> {"bonus", "nebenjob", "zahlungseingang"}, category |-> "Weitere Einnahmen", byAmount |-> "no"],
       [kws |-> {"sbb", "bvg", "db", "tram", "bus"}, category |-> "Mobilität - Öffentlicher Verkehr", byAmount |-> "no"],
       [kws |-> {"shell", "avia", "tank", "parking", "auto"}, category |-> "Mobilität - Auto", byAmount |-> "no"],
       [kws |-> {"coop", "migros", "aldi", "lidl"}, category |-> "Lebensmittel", byAmount |-> "no"],
       [kws |-> {"uber eats", "just eat", "pizza", "restaurant", "bar", "cafe"}, category |-> "Gastronomie", byAmount |-> "gastronomie"],
       [kws |-> {"zalando", "h&m", "zara", "shopping"}, category |-> "Shopping", byAmount |-> "shopping"],
       [kws |-> {"netflix", "spotify", "kino", "cinema"}, category |-> "Unterhaltung", byAmount |-> "no"],
       [kws |-> {"krankenkasse", "arzt", "apotheke", "zahnarzt"}, category |-> "Gesundheit", byAmount |-> "no"],
       [kws |-> {"miete", "stie", "vermieter", "wohnung"}, category |-> "Wohnen", byAmount |-> "no"],
       [kws |-> {"steuer", "tax"}, category |-> "Steuern", byAmount |-> "no"],
       [kws |-> {"sparplan", "etf", "anlage", "vorsorge"}, category |-> "Sparen & Anlegen", byAmount |-> "no"],
       [kws |-> {"abo", "subscription"}, category |-> "Abos", byAmount |-> "no"],
       [kws |-> {"reise", "air", "hotel"}, category |-> "Reisen", byAmount |-> "no"],
       [kws |-> {"bargeld", "atm"}, category |-> "Bargeldbezug", byAmount |-> "no"],
       [kws |-> {"zahlung", "invoice", "rechnung"}, category |-> "Zahlungen", byAmount |-> "no"],
       [kws |-> {"persönlich", "persoenlich", "friseur", "kosmetik"}, category |-> "Persönliches", byAmount |-> "no"],
       [kws |-> {"bildung", "studien", "studium", "schule", "uni", "kurs", "bfh"}, category |-> "Bildung", byAmount |-> "no"] >>

\* the rule's condition: merchant.includes(kw) for one of its keywords
RuleMatches(rule, merchant) == \E kw \in rule.kws : Includes(merchant, kw)

\* the first rule of the chain whose condition holds, 0 when none does
FirstMatchingRule(merchant) ==
    LET hits == {i \in 1..Len(FallbackRules) : RuleMatches(FallbackRules[i], merchant)}
    IN IF hits = {} THEN 0 ELSE CHOOSE i \in hits : \A j \in hits : i <= j

\* the amounts of the if-chain, in Rappen: Gastronomie is an impulse above 50 CHF
\* and unnecessary above 80 CHF; Shopping is an impulse (and unnecessary) above 80 CHF
GastroImpulseOver == 5000
GastroUnnecessaryOver == 8000
ShoppingImpulseOver == 8000

fallbackClassification(transaction) ==
    LET merchant == toLowerCase(transaction.merchant)
        r == FirstMatchingRule(merchant)
        byAmount == IF r = 0 THEN "no" ELSE FallbackRules[r].byAmount
        category == IF r = 0 THEN "Allgemeines" ELSE FallbackRules[r].category
        isImpulse ==
            CASE byAmount = "gastronomie" -> NumGt(transaction.amount, GastroImpulseOver)
              [] byAmount = "shopping" -> NumGt(transaction.amount, ShoppingImpulseOver)
              [] OTHER -> FALSE
        decisionLabel ==
            CASE byAmount = "gastronomie" ->
                     IF NumGt(transaction.amount, GastroUnnecessaryOver)
                     THEN "unnecessary" ELSE "useful"
              [] byAmount = "shopping" -> IF isImpulse THEN "unnecessary" ELSE "useful"
              [] OTHER -> "useful"
        decisionExplanation ==
            IF isImpulse
            THEN "Spontaner Kauf bei " \o transaction.merchant
                 \o ". Überlege beim nächsten Mal, ob du das wirklich brauchst."
            ELSE "Regulärer Kauf bei " \o transaction.merchant
                 \o ". Scheint geplant und sinnvoll zu sein."
    IN [category |-> JStr(category), isImpulse |-> isImpulse,
        decisionLabel |-> decisionLabel, decisionExplanation |-> JStr(decisionExplanation)]

\* the try block of impulseClassificationAgent: it returns a verdict, falls
\* through (no object in the reply), or throws (content null: null has no
\* match method; malformed: JSON.parse throws)
ClassifyTry(response) ==
    CASE response.kind = "json" ->
             LET parsed == response.obj
             IN [out |-> "return",
                 verdict |->
                     [category |-> JOr(parsed.category, JStr("Allgemeines")),
                      isImpulse |-> Truthy(parsed.isImpulse),
                      decisionLabel |->
                          IF parsed.decisionLabel = JStr("unnecessary")
                          THEN "unnecessary" ELSE "useful",
                      decisionExplanation |->
                          JOr(parsed.decisionExplanation, JStr("Keine Erklärung verfügbar."))]]
      [] response.kind = "text" -> [out |-> "fallthrough"]
      [] OTHER -> [out |-> "throw"]

\* a mutant: the agent without its catch clause
ImpulseAgentNoCatch(transaction, remote) ==
    LET response ==
            callOpenAI(ClassifyPrompt, "Analysiere diese Transaktion: " \o transaction.merchant, remote)
        t == ClassifyTry(response)
    IN CASE t.out = "return" -> [out |-> "returned", verdict |-> t.verdict]
         [] t.out = "throw" -> [out |-> "threw"]
         [] OTHER -> [out |-> "returned", verdict |-> fallbackClassification(transaction)]

impulseClassificationAgent(transaction, remote) ==
    LET response ==
            callOpenAI(ClassifyPrompt, "Analysiere diese Transaktion: " \o transaction.merchant, remote)
        t == ClassifyTry(response)
    IN IF t.out = "return"
       THEN [out |-> "returned", verdict |-> t.verdict]
       ELSE [out |-> "returned", verdict |-> fallbackClassification(transaction)]

-----------------------------------------------------------------------------
(* The initial state: empty tables, a server day, a configuration *)

Todays == {"2026-01-15", "2026-08-31", "2026-11-06"}

NoReply == [op |-> "none"]

Init ==
    /\ today \in Todays
    /\ apiKey \in BOOLEAN
    /\ users = <<>>
    /\ goals = <<>>
    /\ transactions = <<>>
    /\ reply = NoReply

-----------------------------------------------------------------------------
(* Specification SpecClassify: the classification agent applied to one     *)
(* transaction and one behaviour of the remote endpoint                    *)

SampleAmounts == {JNum(4520), JNum(6000), JNum(8950), JNaN}

\* what dataExtractionAgent hands to the agent
SampleExtracted ==
    [merchant : SampleMerchants, amount : SampleAmounts, rawCategory : {""}, justification : {""}]

\* objects a model may answer with: complete, fields missing, fields of other types
ClassifyObjects ==
    { [category |-> JStr("Lebensmittel"), isImpulse |-> JBool(FALSE),
       decisionLabel |-> JStr("useful"), decisionExplanation |-> JStr("Wocheneinkauf.")],
      [category |-> JStr("Shopping"), isImpulse |-> JBool(TRUE),
       decisionLabel |-> JStr("unnecessary"), decisionExplanation |-> JStr("Spontankauf.")],
      [category |-> JUndef, isImpulse |-> JUndef,
       decisionLabel |-> JUndef, decisionExplanation |-> JUndef],
      [category |-> JStr(""), isImpulse |-> JStr("ja"),
       decisionLabel |-> JStr("maybe"), decisionExplanation |-> JNull] }

ClassifyRemotes ==
    {RemoteFails, RemoteAnswers(NullContent), RemoteAnswers(Malformed),
     RemoteAnswers(Text("Das ist vermutlich ein Impulskauf."))}
    \cup {RemoteAnswers(Json(o)) : o \in ClassifyObjects}

Classify ==
    /\ \E transaction \in SampleExtracted, remote \in ClassifyRemotes :
           reply' = [op |-> "classify", transaction |-> transaction, remote |-> remote,
                     result |-> impulseClassificationAgent(transaction, remote)]
    /\ UNCHANGED <<today, apiKey, users, goals, transactions>>

NextClassify == Classify

SpecClassify == Init /\ [][NextClassify]_vars

\* the completion capability was unavailable to the last classification
Unavailable == ~apiKey \/ ~reply.remote.ok

\* C1: impulseClassificationAgent never propagates an error: whatever the
\* completion call gives (an object, an object with fields missing or of other
\* types, a text without an object, malformed JSON, null, a failed request) it
\* returns a verdict with a category, a boolean isImpulse, a decisionLabel that
\* is 'useful' or 'unnecessary', and a decisionExplanation.
C1_AgentAlwaysReturnsVerdict ==
    reply.op = "classify" =>
        /\ reply.result.out = "returned"
        /\ Truthy(reply.result.verdict.category)
        /\ reply.result.verdict.isImpulse \in BOOLEAN
        /\ reply.result.verdict.decisionLabel \in {"useful", "unnecessary"}
        /\ Truthy(reply.result.verdict.decisionExplanation)

\* the remote endpoint answered with malformed JSON and the agent returned
C1_Witness ==
    /\ reply.op = "classify"
    /\ apiKey
    /\ reply.remote = RemoteAnswers(Malformed)
    /\ reply.result.out = "returned"

\* C2: with the completion capability unavailable (no key, or the request
\* fails), a transaction whose merchant matches a keyword rule of the fallback
\* gets exactly that rule's category, isImpulse and decisionLabel.
C2_FallbackWhenUnavailable ==
    (/\ reply.op = "classify"
     /\ Unavailable
     /\ FirstMatchingRule(toLowerCase(reply.transaction.merchant)) # 0) =>
        LET rule == fallbackClassification(reply.transaction)
        IN /\ reply.result.out = "returned"
           /\ reply.result.verdict.category = rule.category
           /\ reply.result.verdict.isImpulse = rule.isImpulse
           /\ reply.result.verdict.decisionLabel = rule.decisionLabel

-----------------------------------------------------------------------------
(* The tables, lib/supabase.ts.  A table is the sequence of its rows in    *)
(* order of creation; amounts are in Rappen.                               *)

Users == {"u1", "u2"}
DemoUser == "demoUser"

RECURSIVE Reverse(_)
Reverse(q) == IF q = <<>> THEN <<>> ELSE Reverse(Tail(q)) \o <<Head(q)>>

\* the position of the row with this id, 0 when there is none
RowOf(table, id) ==
    IF \E i \in DOMAIN table : table[i].id = id
    THEN CHOOSE i \in DOMAIN table : table[i].id = id
    ELSE 0

\* randomUUID(): an id no row of the table has
FreshId(table, prefix) ==
    prefix \o NatToString(CHOOSE n \in 1..(Len(table) + 1) :
        /\ \A i \in DOMAIN table : table[i].id # prefix \o NatToString(n)
        /\ \A m \in 1..(n - 1) : \E i \in DOMAIN table : table[i].id = prefix \o NatToString(m))

\* getUserFromRequest: the user of a valid bearer token, or it throws
Tokens == Users \cup {"none"}
Authorized(token) == token \in Users

getTransactions(userId) ==
    SelectSeq(transactions, LAMBDA row : row.userId = userId)

\* a key that is undefined is not sent, its nullable column is null
Nullable(v) == IF v.t = "undefined" THEN JNull ELSE v

\* the insert fails on a column that is NOT NULL: NaN is sent as null
createTransaction(transaction) ==
    IF transaction.amount.t # "number"
    THEN [ok |-> FALSE, table |-> transactions]
    ELSE [ok |-> TRUE,
          table |-> Append(transactions,
              [id |-> transaction.id, userId |-> transaction.userId,
               date |-> transaction.date, merchant |-> transaction.merchant,
               amount |-> transaction.amount.n,
               rawCategory |-> Nullable(transaction.rawCategory),
               category |-> transaction.category,
               justification |-> Nullable(transaction.justification),
               isImpulse |-> transaction.isImpulse, decisionLabel |-> transaction.decisionLabel,
               decisionExplanation |-> transaction.decisionExplanation])]

\* a column of an update: a key that is undefined is not sent and the column keeps its value
Column(old, v) ==
    CASE v.t = "undefined" -> old
      [] v.t = "string" -> v.s
      [] v.t = "boolean" -> v.b

\* update ... eq('id', transactionId) ... single(): throws unless one row is hit;
\* null into a column that is NOT NULL is refused
updateTransactionCategory(params) ==
    LET i == RowOf(transactions, params.transactionId)
    IN IF i = 0 \/ \E v \in {params.category, params.decisionLabel,
                             params.decisionExplanation, params.isImpulse} : v.t = "null"
       THEN [ok |-> FALSE, table |-> transactions]
       ELSE [ok |-> TRUE,
             table |-> [transactions EXCEPT ![i] =
                 [@ EXCEPT !.category = Column(@, params.category),
                           !.decisionLabel = Column(@, params.decisionLabel),
                           !.decisionExplanation = Column(@, params.decisionExplanation),
                           !.isImpulse = Column(@, params.isImpulse),
                           !.rawCategory = IF params.rawCategory.t = "undefined" THEN @
                                           ELSE params.rawCategory]]]

\* the most frequent category among the user's ten newest rows of the
\* merchant, the one met first among equals; null without rows
getMerchantCategoryHint(userId, merchant) ==
    LET all == Reverse(SelectSeq(transactions,
                   LAMBDA row : row.userId = userId /\ row.merchant = merchant))
        data == SubSeq(all, 1, IF Len(all) < 10 THEN Len(all) ELSE 10)
        Count(cat) == Cardinality({i \in DOMAIN data : data[i].category = cat})
        top == CHOOSE i \in DOMAIN data :
                   /\ \A j \in DOMAIN data : Count(data[j].category) <= Count(data[i].category)
                   /\ \A j \in 1..(i - 1) : Count(data[j].category) < Count(data[i].category)
    IN IF data = <<>> THEN JNull ELSE JStr(data[top].category)

\* the user's rows of a goals table, the newest first
GoalsOf(table, userId) ==
    Reverse(SelectSeq(table, LAMBDA row : row.userId = userId))

getSavingsGoals(userId) == GoalsOf(goals, userId)

\* goals.find((g) => g.id === goalId) on a list that was read
FindGoal(list, goalId) == RowOf(list, goalId)

createSavingsGoal(goal) == Append(goals, goal)

deleteSavingsGoal(goalId) == SelectSeq(goals, LAMBDA row : row.id # goalId)

\* the updates of one row by its id; single() throws unless one row is hit
GoalExists(goalId) == RowOf(goals, goalId) # 0

updateSavingsGoalAmount(goalId, newAmount) ==
    [goals EXCEPT ![RowOf(goals, goalId)].currentSavedAmount = newAmount]

updateSavingsGoalRules(goalId, rules) ==
    [goals EXCEPT ![RowOf(goals, goalId)].rules = rules]

\* a completion that moves the target to what is saved
CompleteByLoweringTarget(goalId) ==
    LET data == goals[RowOf(goals, goalId)]
    IN [goals EXCEPT ![RowOf(goals, goalId)].targetAmount = data.currentSavedAmount]

markSavingsGoalComplete(goalId) ==
    LET data == goals[RowOf(goals, goalId)]
    IN [goals EXCEPT ![RowOf(goals, goalId)].currentSavedAmount = data.targetAmount]

\* the full update of the chat route: title, target and rules of one row
updateSavingsGoal(goalId, fields) ==
    [goals EXCEPT ![RowOf(goals, goalId)] =
        [@ EXCEPT !.title = fields.title, !.targetAmount = fields.targetAmount,
                  !.targetDate = fields.targetDate, !.rules = fields.rules]]

-----------------------------------------------------------------------------
(* The transaction routes, app/api/transactions and                        *)
(* app/api/impulse-justification                                           *)

\* Number(v) for the values a JSON body can hold; of strings, the decimal
\* notations with up to two decimals are read, every other string is NaN
StringToNumber(s) ==
    LET dot == IndexOfFrom(s, ".", 1)
        whole == SubSeq(s, 1, dot - 1)
        frac == SubSeq(s, dot + 1, Len(s))
    IN IF s = "" THEN JNum(0)
       ELSE IF AllDigits(s) THEN JNum(100 * ParseNat(s))
       ELSE IF /\ dot > 1
               /\ AllDigits(whole)
               /\ Len(frac) \in {1, 2}
               /\ AllDigits(frac)
            THEN JNum(100 * ParseNat(whole)
                      + (IF Len(frac) = 1 THEN 10 * ParseNat(frac) ELSE ParseNat(frac)))
            ELSE JNaN

Number(v) ==
    CASE v.t = "number" -> v
      [] v.t = "NaN" -> v
      [] v.t = "null" -> JNum(0)
      [] v.t = "undefined" -> JNaN
      [] v.t = "boolean" -> JNum(IF v.b THEN 100 ELSE 0)
      [] v.t = "string" -> StringToNumber(trim(v.s))

\* v?.trim() of an optional text
OptionalTrim(v) == IF v.t = "string" THEN JStr(trim(v.s)) ELSE JUndef

\* v || '' of an optional text
OrEmpty(v) == IF Truthy(v) THEN v.s ELSE ""

\* input.merchant.trim() throws on a merchant that is not a string
dataExtractionAgent(input, userId) ==
    [id |-> FreshId(transactions, "t"),
     userId |-> userId,
     date |-> JOr(input.date, JStr(today)).s,
     merchant |-> trim(input.merchant.s),
     amount |-> Number(input.amount),
     rawCategory |-> OptionalTrim(input.rawCategory),
     justification |-> OptionalTrim(input.justification)]

IncomeKeywords ==
    <<"lohn", "salär", "gehalt", "salary", "payroll", "einkommen", "bonus", "wage">>

\* isIncomeTransaction of the transactions route
isIncomeTransactionRoute(transaction) ==
    LET fields == toLowerCase(transaction.merchant \o " " \o OrEmpty(transaction.rawCategory)
                              \o " " \o OrEmpty(transaction.justification))
    IN \E i \in DOMAIN IncomeKeywords : Includes(fields, IncomeKeywords[i])

\* Math.max(0, n)
AtLeastZero(n) == IF n < 0 THEN 0 ELSE n

\* goals after allocateToGoal, for the row g of the goal in the list (0 for none)
AllocatedTo(list, g, goalId, amount) ==
    IF g = 0 THEN goals
    ELSE updateSavingsGoalAmount(goalId, AtLeastZero(list[g].currentSavedAmount + amount))

allocateToGoal(goalId, amount, userId) ==
    AllocatedTo(getSavingsGoals(userId), FindGoal(getSavingsGoals(userId), goalId),
                goalId, amount)

Response(status) == [status |-> status, transactions |-> transactions, goals |-> goals]

\* step 3 of POST: the extracted transaction with the verdict's fields
Combined(extracted, classification) ==
    [id |-> extracted.id, userId |-> extracted.userId, date |-> extracted.date,
     merchant |-> extracted.merchant, amount |-> extracted.amount,
     rawCategory |-> extracted.rawCategory,
     justification |-> extracted.justification,
     category |-> classification.category.s,
     isImpulse |-> classification.isImpulse,
     decisionLabel |-> classification.decisionLabel,
     decisionExplanation |-> classification.decisionExplanation.s]

\* the override for income-like transactions
IncomeOverridden(finalTransaction) ==
    IF isIncomeTransactionRoute(finalTransaction)
    THEN [finalTransaction EXCEPT !.category = "Einnahmen", !.isImpulse = FALSE,
                                  !.decisionLabel = "useful",
                                  !.decisionExplanation = "Einnahme verbucht (z.B. Lohn/Salär)."]
    ELSE finalTransaction

\* steps 2 to 4 of POST: classify, combine, override income, store
ClassifyAndStore(extracted, remote) ==
    createTransaction(
        IncomeOverridden(Combined(extracted, impulseClassificationAgent(extracted, remote).verdict)))

\* the optional historical hint for a transaction without rawCategory
Hinted(extracted, hint) ==
    IF ~Truthy(extracted.rawCategory) /\ Truthy(hint)
    THEN [extracted EXCEPT !.rawCategory = hint]
    ELSE extracted

WithHint(userId, extracted) ==
    Hinted(extracted, getMerchantCategoryHint(userId, extracted.merchant))

\* the end of POST for what createTransaction returned: the optional allocation
Allocated(userId, body, saved) ==
    IF ~saved.ok THEN Response(500)
    ELSE [status |-> 200,
          transactions |-> saved.table,
          goals |-> IF /\ Truthy(body.savingsGoalId)
                       /\ body.allocateAmount.t = "number"
                       /\ body.allocateAmount.n > 0
                    THEN allocateToGoal(body.savingsGoalId.s, body.allocateAmount.n, userId)
                    ELSE goals]

\* POST /api/transactions
PostTransactionsRoute(token, body, remote) ==
    IF ~Authorized(token) THEN Response(500)
    ELSE IF ~Truthy(body.merchant) \/ body.amount = JUndef THEN Response(400)
    ELSE IF body.merchant.t # "string" THEN Response(500)
    ELSE Allocated(token, body,
                   ClassifyAndStore(WithHint(token, dataExtractionAgent(body, token)), remote))

\* the end of the demo POST for what createTransaction returned
Saved(saved) ==
    IF ~saved.ok THEN Response(500)
    ELSE [status |-> 200, transactions |-> saved.table, goals |-> goals]

\* POST /api/transactions as it was for the demo user: no token, no hint, no
\* income override, no allocation
PostTransactionsDemoRoute(body, remote) ==
    IF ~Truthy(body.merchant) \/ body.amount = JUndef THEN Response(400)
    ELSE IF body.merchant.t # "string" THEN Response(500)
    ELSE Saved(createTransaction(
                   Combined(dataExtractionAgent(body, DemoUser),
                            impulseClassificationAgent(dataExtractionAgent(body, DemoUser),
                                                       remote).verdict)))

\* PATCH /api/transactions
PatchTransactionsRoute(token, body) ==
    IF ~Authorized(token) THEN Response(500)
    ELSE IF ~Truthy(body.id) \/ ~Truthy(body.category) THEN Response(400)
    ELSE
        LET updated == updateTransactionCategory(
                [transactionId |-> body.id.s, category |-> body.category,
                 decisionLabel |-> body.decisionLabel,
                 decisionExplanation |-> body.decisionExplanation,
                 isImpulse |-> body.isImpulse, rawCategory |-> body.category])
        IN IF ~updated.ok THEN Response(500)
           ELSE [status |-> 200, transactions |-> updated.table, goals |-> goals]

\* the object the justification route reads out of the reply: {} when the
\* reply holds no object; a throw of JSON.parse or of match on null is caught
JustificationResult(raw) ==
    IF raw.kind = "json" THEN raw.obj
    ELSE [category |-> JUndef, isImpulse |-> JUndef,
          decisionLabel |-> JUndef, decisionExplanation |-> JUndef]

\* POST /api/impulse-justification
ImpulseJustificationRoute(body, remote) ==
    IF ~Truthy(body.transactionId) THEN Response(400)
    ELSE
        LET list == getTransactions(DemoUser)
            i == RowOf(list, body.transactionId.s)
            tx == list[i]
            userPrompt == "Transaktion: - Händler: " \o tx.merchant
            aiResult == JustificationResult(callOpenAI(JustifyPrompt, userPrompt, remote))
            updated == updateTransactionCategory(
                [transactionId |-> tx.id,
                 category |-> JOr(aiResult.category, JStr(tx.category)),
                 decisionLabel |-> JOr(aiResult.decisionLabel, JStr(tx.decisionLabel)),
                 decisionExplanation |->
                     JOr(aiResult.decisionExplanation,
                         JOr(body.justification, JStr(tx.decisionExplanation))),
                 isImpulse |-> IF aiResult.isImpulse.t = "boolean" THEN aiResult.isImpulse
                               ELSE JBool(tx.isImpulse),
                 rawCategory |-> JOr(aiResult.category, JStr(tx.category))])
        IN IF i = 0 THEN Response(404)
           ELSE IF ~updated.ok THEN Response(500)
           ELSE [status |-> 200, transactions |-> updated.table, goals |-> goals]

-----------------------------------------------------------------------------
(* Specification SpecTx: the routes that write the transactions table *)

TxRemotes ==
    {RemoteFails, RemoteAnswers(Malformed),
     RemoteAnswers(Json([category |-> JStr("Lebensmittel"), isImpulse |-> JBool(FALSE),
                         decisionLabel |-> JStr("useful"),
                         decisionExplanation |-> JStr("Wocheneinkauf.")]))}

TxTokens == {"u1", "none"}

PostBodies ==
    { [merchant |-> m, amount |-> a, date |-> JUndef, rawCategory |-> JUndef,
       justification |-> JUndef, savingsGoalId |-> JUndef, allocateAmount |-> JUndef] :
        m \in {JStr("Coop"), JStr(" Lohn ACME AG"), JStr(""), JNum(5)},
        a \in {JStr("89.5"), JStr("viel"), JUndef} }

PatchBody(id, category, decisionLabel, decisionExplanation, isImpulse) ==
    [id |-> id, category |-> category, decisionLabel |-> decisionLabel,
     decisionExplanation |-> decisionExplanation, isImpulse |-> isImpulse]

\* what the history page sends, the least the route accepts, values the
\* route does not look at, and bodies it refuses
PatchBodies ==
    { PatchBody(JStr("t1"), JStr("Freizeit"), JStr("unnecessary"),
                JStr("Manuell gesetzt auf Freizeit"), JBool(TRUE)),
      PatchBody(JStr("t1"), JStr("Freizeit"), JUndef, JUndef, JUndef),
      PatchBody(JStr("t1"), JStr("Lohn"), JStr("maybe"), JStr(""), JUndef),
      PatchBody(JStr("t1"), JUndef, JUndef, JUndef, JUndef),
      PatchBody(JUndef, JStr("Freizeit"), JUndef, JUndef, JUndef),
      PatchBody(JStr("t9"), JStr("Freizeit"), JUndef, JUndef, JUndef) }

JustificationObjects ==
    { [category |-> JStr("Shopping"), isImpulse |-> JBool(TRUE),
       decisionLabel |-> JStr("unnecessary"), decisionExplanation |-> JStr("Nicht geplant.")],
      [category |-> JUndef, isImpulse |-> JStr("true"),
       decisionLabel |-> JStr("neutral"), decisionExplanation |-> JUndef] }

JustificationRemotes ==
    {RemoteFails, RemoteAnswers(NullContent), RemoteAnswers(Malformed)}
    \cup {RemoteAnswers(Json(o)) : o \in JustificationObjects}

JustificationBodies ==
    { [transactionId |-> JStr("t1"), justification |-> JStr("War lange geplant.")],
      [transactionId |-> JStr("t2"), justification |-> JUndef],
      [transactionId |-> JStr("t9"), justification |-> JUndef],
      [transactionId |-> JUndef, justification |-> JUndef] }

Respond(op, request, response) ==
    /\ transactions' = response.transactions
    /\ goals' = response.goals
    /\ reply' = [op |-> op, status |-> response.status]
    /\ UNCHANGED <<today, apiKey, users>>

PostTransaction ==
    /\ Len(transactions) < MaxTransactions
    /\ \E token \in TxTokens, body \in PostBodies, remote \in TxRemotes :
           \E response \in {PostTransactionsRoute(token, body, remote)} :
               Respond("POST /api/transactions", body, response)

PostTransactionDemo ==
    /\ Len(transactions) < MaxTransactions
    /\ \E body \in PostBodies, remote \in TxRemotes :
           \E response \in {PostTransactionsDemoRoute(body, remote)} :
               Respond("POST /api/transactions (demo)", body, response)

PatchTransaction ==
    \E token \in TxTokens, body \in PatchBodies :
        \E response \in {PatchTransactionsRoute(token, body)} :
            Respond("PATCH /api/transactions", body, response)

PostImpulseJustification ==
    \E body \in JustificationBodies, remote \in JustificationRemotes :
        \E response \in {ImpulseJustificationRoute(body, remote)} :
            Respond("POST /api/impulse-justification", body, response)

NextTx ==
    \/ PostTransaction
    \/ PostTransactionDemo
    \/ PatchTransaction
    \/ PostImpulseJustification

InitTx == Init /\ today = "2026-11-06"

SpecTx == InitTx /\ [][NextTx]_vars

\* C4: every persisted transaction has a populated category, a boolean
\* isImpulse, a decisionLabel that is 'useful' or 'unnecessary' and a populated
\* decisionExplanation, whatever POST /api/transactions, PATCH
\* /api/transactions and the justification route have done.
C4_PersistedVerdictComplete ==
    \A i \in DOMAIN transactions :
        /\ transactions[i].category # ""
        /\ transactions[i].isImpulse \in BOOLEAN
        /\ transactions[i].decisionLabel \in {"useful", "unnecessary"}
        /\ transactions[i].decisionExplanation # ""

-----------------------------------------------------------------------------
(* The savings goal synthesizer: savingsGoalAgent of lib/agents.ts and     *)
(* buildBilingualRules of the chat route                                   *)

\* new Date(dateStr).getTime() > now; false for a text that is no date
isFutureDate(dateStr) ==
    /\ dateStr.t = "string"
    /\ IsISODate(dateStr.s)
    /\ DateParse(dateStr.s) > DateParse(today)

getFutureDateISO(daysAhead) == toISODate(DateParse(today) + daysAhead)

DefaultDaysAhead == 180
DefaultTargetAmount == 100000

\* the goal for a reply that holds no usable object
FallbackGoal ==
    [goalTitle |-> "Neues Sparziel", targetAmount |-> DefaultTargetAmount,
     targetDate |-> getFutureDateISO(DefaultDaysAhead),
     rules |-> <<"Monatliches Budget einhalten", "Impulskäufe vermeiden",
                 "Regelmäßig 100 CHF sparen">>]

\* a synthesizer that keeps every calendar date of the reply, future or not
KeepsReplyDate(targetDate) ==
    IF Truthy(targetDate) /\ targetDate.t = "string" /\ IsISODate(targetDate.s)
    THEN targetDate.s
    ELSE getFutureDateISO(DefaultDaysAhead)

\* suggestedDate of savingsGoalAgent
SuggestedDate(targetDate) ==
    IF Truthy(targetDate) /\ isFutureDate(targetDate)
    THEN targetDate.s
    ELSE getFutureDateISO(DefaultDaysAhead)

savingsGoalAgent(userMessage, remote) ==
    LET response == callOpenAI(GoalPrompt, userMessage, remote)
        parsed == response.obj
        amount == Number(parsed.targetAmount)
    IN IF response.kind = "json"
       THEN [goalTitle |-> JOr(parsed.goalTitle, JStr("Neues Sparziel")).s,
             targetAmount |-> IF Truthy(amount) THEN amount.n ELSE DefaultTargetAmount,
             targetDate |-> SuggestedDate(parsed.targetDate),
             rules |-> IF parsed.rules.t = "array" THEN parsed.rules.a
                       ELSE <<"Monatliches Budget einhalten", "Impulskäufe vermeiden",
                              "Regelmäßig sparen">>]
       ELSE FallbackGoal

\* the months calculateMonthlyRate divides by
MonthsRemaining(targetDate) ==
    LET m == (DateYear(targetDate) - DateYear(today)) * 12
             + (DateMonth(targetDate) - DateMonth(today))
             + (IF DateDay(targetDate) >= DateDay(today) THEN 1 ELSE 0)
    IN IF m < 1 THEN 1 ELSE m

\* the rate as the fraction n / d of Rappen
calculateMonthlyRate(targetAmount, targetDate) ==
    [n |-> IF targetAmount < 0 THEN 0 ELSE targetAmount, d |-> MonthsRemaining(targetDate)]

\* toFixed(2) of a fraction of Rappen: the nearest Rappen, the larger of two
RateToFixed2(rate) == toFixed2((2 * rate.n + rate.d) \div (2 * rate.d))

MonthlyRuleDe(rate) == "Jeden Monat " \o RateToFixed2(rate) \o " CHF aufs Sparkonto überweisen"

\* translated?.trim() || text of the translators, for a reply that is a text or null
Translated(text, remote) ==
    LET translated == callOpenAI(TranslatePrompt, text, remote)
    IN IF translated.kind = "text" /\ trim(translated.s) # "" THEN trim(translated.s) ELSE text

NoGoal == [id |-> ""]

\* title and rules of buildBilingualRules; the English rules are not stored
buildBilingualRules(goalOutput, lang, existing, remote) ==
    LET targetAmount == IF goalOutput.targetAmount # 0 THEN goalOutput.targetAmount
                        ELSE IF existing # NoGoal THEN existing.targetAmount ELSE 0
        targetDate == IF goalOutput.targetDate # "" THEN goalOutput.targetDate
                      ELSE IF existing # NoGoal /\ existing.targetDate # "" THEN existing.targetDate
                      ELSE today
        monthly == calculateMonthlyRate(targetAmount, targetDate)
        baseRules == SelectSeq(goalOutput.rules,
                         LAMBDA r : ~Includes(toLowerCase(r), "aufs sparkonto"))
    IN [goalTitle |-> IF lang = "en" THEN Translated(goalOutput.goalTitle, remote)
                      ELSE goalOutput.goalTitle,
        rules |-> <<MonthlyRuleDe(monthly)>> \o baseRules]

-----------------------------------------------------------------------------
(* The chat route, app/api/chat: the detectors *)

RECURSIVE NormalizeText(_)
NormalizeText(text) ==
    IF text = "" THEN ""
    ELSE LET c == LowerChar(CharAt(text, 1))
         IN (CASE c = "ä" -> "ae" [] c = "ö" -> "oe" [] c = "ü" -> "ue" [] c = "ß" -> "ss"
               [] OTHER -> c) \o NormalizeText(SubSeq(text, 2, Len(text)))

\* normalize, computed once for each text of the model
NormalTexts == [text \in Texts |-> NormalizeText(text)]

normalize(text) == IF text \in DOMAIN NormalTexts THEN NormalTexts[text] ELSE NormalizeText(text)

\* keywords.some((kw) => text.includes(kw))
HasKeyword(text, keywords) == \E i \in DOMAIN keywords : Includes(text, keywords[i])

\* the smallest member of a non-empty set of positions, 0 for the empty set
FirstOf(positions) ==
    IF positions = {} THEN 0 ELSE CHOOSE i \in positions : \A j \in positions : i <= j

\* position of the last goal of the list whose title the message holds, 0 for none
matchLastGoalByName(normalizedMessage, list) ==
    LET matching == {i \in DOMAIN list : Includes(normalizedMessage, normalize(list[i].title))}
    IN IF matching = {} THEN 0 ELSE CHOOSE i \in matching : \A j \in matching : j <= i

\* position in the list of goals.find((g) => message.includes(normalize(g.title))), 0 for none
matchGoalByName(normalizedMessage, list) ==
    FirstOf({i \in DOMAIN list : Includes(normalizedMessage, normalize(list[i].title))})

\* matchGoalByName(...) || goals[0]
MatchedOrFirst(normalizedMessage, list) ==
    LET i == matchGoalByName(normalizedMessage, list)
    IN IF i # 0 THEN i ELSE IF list # <<>> THEN 1 ELSE 0

\* parseFloat of the first match of /(\d+(?:[.,]\d{1,2})?)/ in Rappen, -1 without a match
FirstAmount(message) ==
    LET i == FirstOf({k \in 1..Len(message) : IsDigit(CharAt(message, k))})
        e == DigitRunEnd(message, i)
        decimals == /\ e + 2 <= Len(message)
                    /\ CharAt(message, e + 1) \in {".", ","}
                    /\ IsDigit(CharAt(message, e + 2))
        two == decimals /\ e + 3 <= Len(message) /\ IsDigit(CharAt(message, e + 3))
    IN IF i = 0 THEN -1
       ELSE 100 * ParseNat(SubSeq(message, i, e))
            + (IF two THEN ParseNat(SubSeq(message, e + 2, e + 3))
               ELSE IF decimals THEN 10 * ParseNat(SubSeq(message, e + 2, e + 2))
               ELSE 0)

\* the positions at which /regel/i matches
RegelAt(message) ==
    {i \in 1..(Len(message) - 4) : toLowerCase(SubSeq(message, i, i + 4)) = "regel"}

\* the first group of /regel\s*(\d+)/i as a number, -1 without a match
RegelNumber(message) ==
    LET i == FirstOf({k \in RegelAt(message) :
                 LET d == SpaceRunEnd(message, k + 5) + 1
                 IN d <= Len(message) /\ IsDigit(CharAt(message, d))})
        d == SpaceRunEnd(message, i + 5) + 1
    IN IF i = 0 THEN -1 ELSE ParseNat(SubSeq(message, d, DigitRunEnd(message, d)))

\* the first group of the rule pattern /regel[^:]*[:\-]\s*["]?(.+?)["]?$/i,
\* undefined without a match: after the first 'regel' that has one, the last
\* ':' or '-' that a stretch without ':' reaches and that is not the end of the
\* message; then white space and an opening quote are skipped and a closing
\* quote is dropped.  Of the two kinds of quotes the pattern knows, the
\* messages use the straight one.
RegelSeparators(message, i) ==
    {p \in (i + 5)..(Len(message) - 1) :
        /\ CharAt(message, p) \in {":", "-"}
        /\ \A q \in (i + 5)..(p - 1) : CharAt(message, q) # ":"}

\* the largest member of a non-empty set of positions
LastOf(positions) == CHOOSE x \in positions : \A y \in positions : y <= x

DropOpeningQuote(body) ==
    IF Len(body) >= 2 /\ CharAt(body, 1) = "\"" THEN SubSeq(body, 2, Len(body)) ELSE body

DropClosingQuote(rest) ==
    IF Len(rest) >= 2 /\ CharAt(rest, Len(rest)) = "\"" THEN SubSeq(rest, 1, Len(rest) - 1)
    ELSE rest

\* the group for the match that starts at the 'regel' at position i, 0 for no match
RegelTextFrom(message, i) ==
    IF i = 0 THEN JUndef
    ELSE JStr(DropClosingQuote(DropOpeningQuote(
             SubSeq(message, SpaceRunEnd(message, LastOf(RegelSeparators(message, i)) + 1) + 1,
                    Len(message)))))

RegelText(message) ==
    RegelTextFrom(message,
                  FirstOf({k \in RegelAt(message) : RegelSeparators(message, k) # {}}))

\* the first group of /"(.+?)"/, undefined without a match
QuotedText(message) ==
    LET Closing(i) == {j \in (i + 2)..Len(message) : CharAt(message, j) = "\""}
        i == FirstOf({k \in 1..Len(message) : CharAt(message, k) = "\"" /\ Closing(k) # {}})
    IN IF i = 0 THEN JUndef ELSE JStr(SubSeq(message, i + 1, FirstOf(Closing(i)) - 1))

\* first || second of two matches
FirstMatch(first, second) == IF first.t = "string" THEN first ELSE second

\* ruleMatch ? ruleMatch[1].trim() : ''
TrimmedGroup(ruleMatch) == IF ruleMatch.t = "string" THEN trim(ruleMatch.s) ELSE ""

RuleTextOf(message) == TrimmedGroup(FirstMatch(RegelText(message), QuotedText(message)))

\* the keyword lists of the detectors
Keywords ==
    [goal |-> <<"sparen", "sparziel", "ziel", "spare", "save", "saving", "savings", "goal",
                "target">>,
     amount |-> <<"chf", "franken", "fr.", "eur", "usd", "$", "€", "£">>,
     time |-> <<"bis", "monat", "monate", "jahr", "jahre", "tag", "tage", "woche", "wochen",
                "by", "month", "months", "year", "years", "week", "weeks", "day", "days",
                "until">>,
     deposit |-> <<"eingezahlt", "einbezahlt", "einzahlung", "zurueckgelegt", "gespart">>,
     ruleAdd |-> <<"regel hinzuf", "neue regel", "regel add", "regel dazu">>,
     ruleRemove |-> <<"regel loesch", "regel entfern", "regel streich">>,
     deletion |-> <<"loesch", "delete", "entfern", "weg">>,
     complete |-> <<"fertig", "erreicht", "abgeschlossen", "erfuellt", "erledigt">>,
     update |-> <<"update", "updatee", "anpassen", "pass an", "passe", "ändere", "aendere",
                  "ändern", "aendern", "bearbeiten", "edit", "adjust", "adjustiere",
                  "change", "modify", "revise", "rename", "updaten", "aktualisier",
                  "aktualisieren", "editieren", "rewrite", "rework", "überarbeiten",
                  "ueberarbeiten", "überarbeite", "ueberarbeite", "änderung", "aenderung",
                  "ziel anpassen", "goal update", "goal adjust", "goal change">>]

\* what the detectors read off a message (the parameter a of the detectors):
\* its normal form, which keyword lists hit it, and what the patterns capture
AnalysisOf(message, normalized) ==
    [normalized |-> normalized,
     has |-> [k \in DOMAIN Keywords |-> HasKeyword(normalized, Keywords[k])],
     amount |-> FirstAmount(message),
     regelNumber |-> RegelNumber(message),
     ruleText |-> RuleTextOf(message)]

Analyse(message) == AnalysisOf(message, normalize(message))

\* the analysis, computed once for each message of the model
Analysed == [message \in Utterances |-> Analyse(message)]

\* every message of the model is in the table
Analysis(message) == Analysed[message]

NoIntent == [found |-> FALSE]

detectSavingsGoalIntent(a) ==
    /\ a.has.goal
    /\ a.has.amount \/ a.amount >= 0 \/ a.has.time

detectSavingsDepositIntent(a, list) ==
    LET matchedGoal == matchGoalByName(a.normalized, list)
    IN IF ~a.has.deposit \/ a.amount < 0 THEN NoIntent
       ELSE IF a.amount <= 0 THEN NoIntent
       ELSE IF matchedGoal = 0 THEN NoIntent
       ELSE [found |-> TRUE, amount |-> a.amount, goalId |-> list[matchedGoal].id]

detectGoalRuleAddIntent(a, list) ==
    LET matchedGoal == MatchedOrFirst(a.normalized, list)
    IN IF ~a.has.ruleAdd THEN NoIntent
       ELSE IF a.ruleText = "" THEN NoIntent
       ELSE IF matchedGoal = 0 THEN NoIntent
       ELSE [found |-> TRUE, goalId |-> list[matchedGoal].id, ruleText |-> a.ruleText]

\* ruleIndex is the 0-based index; ruleText is '' where the code has undefined
detectGoalRuleRemoveIntent(a, list) ==
    LET matchedGoal == MatchedOrFirst(a.normalized, list)
    IN IF ~a.has.ruleRemove THEN NoIntent
       ELSE IF matchedGoal = 0 THEN NoIntent
       ELSE IF a.regelNumber >= 0
       THEN [found |-> TRUE, goalId |-> list[matchedGoal].id,
             byIndex |-> TRUE, ruleIndex |-> a.regelNumber - 1, ruleText |-> ""]
       ELSE [found |-> TRUE, goalId |-> list[matchedGoal].id,
             byIndex |-> FALSE, ruleIndex |-> -1, ruleText |-> a.ruleText]

\* detectGoalDeletionIntent, detectGoalCompleteIntent and detectGoalUpdateIntent
\* are one function with three keyword lists
DetectByKeywords(a, list, which) ==
    LET matchedGoal == MatchedOrFirst(a.normalized, list)
    IN IF ~a.has[which] THEN NoIntent
       ELSE IF matchedGoal = 0 THEN NoIntent
       ELSE [found |-> TRUE, goalId |-> list[matchedGoal].id]

-----------------------------------------------------------------------------
(* The chat route: POST /api/chat.  Every branch catches what its calls    *)
(* throw; on the rows the request has just read none of them throws.       *)

\* rules without those the removal intent names
RulesAfterRemoval(rules, intent) ==
    IF /\ intent.byIndex
       /\ intent.ruleIndex + 1 \in DOMAIN rules
       /\ rules[intent.ruleIndex + 1] # ""
    THEN SubSeq(rules, 1, intent.ruleIndex) \o SubSeq(rules, intent.ruleIndex + 2, Len(rules))
    ELSE IF intent.ruleText # ""
    THEN SelectSeq(rules,
             LAMBDA r : ~Includes(toLowerCase(r), toLowerCase(intent.ruleText)))
    ELSE rules

ChatResponse(branch, table, userId, read) ==
    [status |-> 200, branch |-> branch, goals |-> table,
     updatedGoals |-> IF read THEN JArr(GoalsOf(table, userId)) ELSE JUndef]

\* the goal an intent names, which the detector has found in the list
TargetGoal(list, intent) == list[FindGoal(list, intent.goalId)]

UpdatedGoal(userId, intent, goalOutput, built) ==
    ChatResponse("update",
        updateSavingsGoal(intent.goalId,
            [title |-> built.goalTitle, targetAmount |-> goalOutput.targetAmount,
             targetDate |-> goalOutput.targetDate, rules |-> built.rules]),
        userId, TRUE)

CreatedGoal(userId, goalOutput, built) ==
    ChatResponse("create",
        createSavingsGoal(
            [id |-> FreshId(goals, "g"), userId |-> userId,
             title |-> built.goalTitle, targetAmount |-> goalOutput.targetAmount,
             targetDate |-> goalOutput.targetDate, currentSavedAmount |-> 0,
             rules |-> built.rules]),
        userId, TRUE)

\* the branches with the deletion intent tested before the deposit intent
DeleteFirstBranches(userId, lang, list, savingsDepositIntent, ruleAddIntent, ruleRemoveIntent, deleteIntent, completeIntent, updateIntent, isSavingsGoal, goalOutput, translator) ==
    IF deleteIntent.found
    THEN ChatResponse("delete", deleteSavingsGoal(deleteIntent.goalId), userId, TRUE)
    ELSE IF savingsDepositIntent.found
    THEN ChatResponse("deposit",
             updateSavingsGoalAmount(savingsDepositIntent.goalId,
                 AtLeastZero(TargetGoal(list, savingsDepositIntent).currentSavedAmount
                             + savingsDepositIntent.amount)),
             userId, TRUE)
    ELSE IF ruleAddIntent.found
    THEN ChatResponse("rule-add",
             updateSavingsGoalRules(ruleAddIntent.goalId,
                 Append(TargetGoal(list, ruleAddIntent).rules, ruleAddIntent.ruleText)),
             userId, TRUE)
    ELSE IF ruleRemoveIntent.found
    THEN ChatResponse("rule-remove",
             updateSavingsGoalRules(ruleRemoveIntent.goalId,
                 RulesAfterRemoval(TargetGoal(list, ruleRemoveIntent).rules,
                                   ruleRemoveIntent)),
             userId, TRUE)
    ELSE IF completeIntent.found
    THEN ChatResponse("complete", markSavingsGoalComplete(completeIntent.goalId),
                      userId, TRUE)
    ELSE IF updateIntent.found
    THEN UpdatedGoal(userId, updateIntent, goalOutput,
             buildBilingualRules(goalOutput, lang, TargetGoal(list, updateIntent), translator))
    ELSE IF isSavingsGoal
    THEN CreatedGoal(userId, goalOutput,
             buildBilingualRules(goalOutput, lang, NoGoal, translator))
    ELSE ChatResponse("general", goals, userId, FALSE)

\* the branches of the route, for the intents the detectors have found
ChatBranches(userId, lang, list, savingsDepositIntent, ruleAddIntent, ruleRemoveIntent, deleteIntent, completeIntent, updateIntent, isSavingsGoal, goalOutput, translator) ==
    IF savingsDepositIntent.found
    THEN ChatResponse("deposit",
             updateSavingsGoalAmount(savingsDepositIntent.goalId,
                 AtLeastZero(TargetGoal(list, savingsDepositIntent).currentSavedAmount
                             + savingsDepositIntent.amount)),
             userId, TRUE)
    ELSE IF ruleAddIntent.found
    THEN ChatResponse("rule-add",
             updateSavingsGoalRules(ruleAddIntent.goalId,
                 Append(TargetGoal(list, ruleAddIntent).rules, ruleAddIntent.ruleText)),
             userId, TRUE)
    ELSE IF ruleRemoveIntent.found
    THEN ChatResponse("rule-remove",
             updateSavingsGoalRules(ruleRemoveIntent.goalId,
                 RulesAfterRemoval(TargetGoal(list, ruleRemoveIntent).rules,
                                   ruleRemoveIntent)),
             userId, TRUE)
    ELSE IF deleteIntent.found
    THEN ChatResponse("delete", deleteSavingsGoal(deleteIntent.goalId), userId, TRUE)
    ELSE IF completeIntent.found
    THEN ChatResponse("complete", markSavingsGoalComplete(completeIntent.goalId),
                      userId, TRUE)
    ELSE IF updateIntent.found
    THEN UpdatedGoal(userId, updateIntent, goalOutput,
             buildBilingualRules(goalOutput, lang, TargetGoal(list, updateIntent), translator))
    ELSE IF isSavingsGoal
    THEN CreatedGoal(userId, goalOutput,
             buildBilingualRules(goalOutput, lang, NoGoal, translator))
    ELSE ChatResponse("general", goals, userId, FALSE)

\* the route for the goals it has read and what the detectors read off the message
ChatIntents(userId, lang, list, a, goalOutput, translator) ==
    ChatBranches(userId, lang, list,
                 detectSavingsDepositIntent(a, list), detectGoalRuleAddIntent(a, list),
                 detectGoalRuleRemoveIntent(a, list), DetectByKeywords(a, list, "deletion"),
                 DetectByKeywords(a, list, "complete"), DetectByKeywords(a, list, "update"),
                 detectSavingsGoalIntent(a), goalOutput, translator)

ChatRoute(userId, lang, latestUserMessage, remote, translator) ==
    ChatIntents(userId, lang, getSavingsGoals(userId), Analysis(latestUserMessage),
                savingsGoalAgent(latestUserMessage, remote), translator)

\* PATCH /api/goals
PatchGoalsRoute(token, body) ==
    IF ~Authorized(token) THEN Response(500)
    ELSE IF ~Truthy(body.goalId) \/ body.amount.t # "number" \/ body.mode # JStr("deposit")
    THEN Response(400)
    ELSE IF FindGoal(getSavingsGoals(token), body.goalId.s) = 0 THEN Response(404)
    ELSE [status |-> 200, transactions |-> transactions,
          goals |-> updateSavingsGoalAmount(body.goalId.s,
                        AtLeastZero(TargetGoal(getSavingsGoals(token),
                                               [goalId |-> body.goalId.s]).currentSavedAmount
                                    + body.amount.n))]

\* DELETE /api/goals
DeleteGoalsRoute(token, body) ==
    IF ~Authorized(token) THEN Response(500)
    ELSE IF ~Truthy(body.goalId) THEN Response(400)
    ELSE [status |-> 200, transactions |-> transactions,
          goals |-> deleteSavingsGoal(body.goalId.s)]

-----------------------------------------------------------------------------
(* The requests of the goal routes *)

GoalObject ==
    [goalTitle |-> JStr("Thailand trip"), targetAmount |-> JNum(40000),
     targetDate |-> JStr("2027-03-31"),
     rules |-> JArr(<<"Jeden Monat 80 CHF aufs Sparkonto überweisen",
                      "Impulskäufe vermeiden">>)]

ChatRemotes == {RemoteAnswers(Json(GoalObject))}

Translators == {RemoteAnswers(NullContent), RemoteAnswers(Text("Trip to Thailand"))}

PatchGoalBody(goalId, amount, mode) == [goalId |-> goalId, amount |-> amount, mode |-> mode]

PatchGoalBodies ==
    { PatchGoalBody(JStr("g1"), JNum(20000), JStr("deposit")),
      PatchGoalBody(JStr("g2"), JNum(-20000), JStr("deposit")),
      PatchGoalBody(JStr("g1"), JStr("200"), JStr("deposit")),
      PatchGoalBody(JStr("g1"), JNum(20000), JStr("withdraw")),
      PatchGoalBody(JUndef, JNum(20000), JStr("deposit")) }

AllocationBodies ==
    { [merchant |-> JStr("Coop"), amount |-> JNum(4520), date |-> JUndef,
       rawCategory |-> JUndef, justification |-> JUndef,
       savingsGoalId |-> g, allocateAmount |-> a] :
        g \in {JUndef, JStr("g1")}, a \in {JNum(20000), JNum(-20000)} }

\* the tables stay within the bounds: goals, rules per goal, and what
\* deposits may raise a saved amount to
WithinBounds(table) ==
    /\ Len(table) <= MaxGoals
    /\ \A i \in DOMAIN table :
           /\ Len(table[i].rules) <= MaxRules
           /\ \/ table[i].currentSavedAmount <= MaxSavedHundreds * 10000
              \/ table[i].currentSavedAmount = table[i].targetAmount
              \/ \E j \in DOMAIN goals :
                     /\ goals[j].id = table[i].id
                     /\ goals[j].currentSavedAmount >= table[i].currentSavedAmount

\* one request to POST /api/chat
ChatOf(senders, utterances, langs, translators) ==
    \E userId \in senders, latestUserMessage \in utterances, lang \in langs,
       remote \in ChatRemotes, translator \in translators :
        \E response \in {ChatRoute(userId, lang, latestUserMessage, remote, translator)} :
            /\ WithinBounds(response.goals)
            /\ goals' = response.goals
            /\ reply' = [op |-> "POST /api/chat", status |-> response.status,
                         userId |-> userId, message |-> latestUserMessage,
                         branch |-> response.branch,
                         updatedGoals |-> response.updatedGoals]
            /\ UNCHANGED <<today, apiKey, users, transactions>>

GoalsRespond(op, token, response) ==
    /\ WithinBounds(response.goals)
    /\ transactions' = response.transactions
    /\ goals' = response.goals
    /\ reply' = [op |-> op, status |-> response.status, userId |-> token]
    /\ UNCHANGED <<today, apiKey, users>>

PatchGoal ==
    \E token \in Tokens, body \in PatchGoalBodies :
        \E response \in {PatchGoalsRoute(token, body)} :
            GoalsRespond("PATCH /api/goals", token, response)

DeleteGoal ==
    \E token \in Tokens, goalId \in {JUndef, JStr("g1")} :
        \E response \in {DeleteGoalsRoute(token, [goalId |-> goalId])} :
            GoalsRespond("DELETE /api/goals", token, response)

PostAllocation ==
    /\ Len(transactions) < MaxTransactions
    /\ \E token \in TxTokens, body \in AllocationBodies :
           \E response \in {PostTransactionsRoute(token, body, RemoteFails)} :
               GoalsRespond("POST /api/transactions", token, response)

InitGoals == Init /\ today = "2026-11-06" /\ apiKey

-----------------------------------------------------------------------------
(* Specification SpecGoals: deposits, completion and deletion of goals *)

ChatAboutSavings == ChatOf(Users, SavingsUtterances, {"de"}, {RemoteAnswers(NullContent)})

NextGoals ==
    \/ ChatAboutSavings
    \/ PatchGoal
    \/ DeleteGoal
    \/ PostAllocation

SpecGoals == InitGoals /\ [][NextGoals]_vars

\* the step is a request to the chat route that took this branch
ChatStep(branch) == reply'.op = "POST /api/chat" /\ reply'.branch = branch

\* C5: the message "I saved 200 at Thailand trip", sent by a user who has a
\* goal titled "Thailand trip", raises that goal's currentSavedAmount by
\* exactly 200, changes no other goal, creates none, and the response carries
\* the updated list of the user's goals.
C5_EnglishDepositIsBooked ==
    [][(/\ reply'.op = "POST /api/chat"
        /\ reply'.message = "I saved 200 at Thailand trip"
        /\ \E i \in DOMAIN goals :
               goals[i].userId = reply'.userId /\ goals[i].title = "Thailand trip")
       => /\ \E i \in DOMAIN goals :
                 /\ goals[i].userId = reply'.userId
                 /\ goals[i].title = "Thailand trip"
                 /\ goals' = [goals EXCEPT ![i].currentSavedAmount = @ + 20000]
          /\ reply'.updatedGoals = JArr(GoalsOf(goals', reply'.userId))]_vars

\* the step is a deposit: by chat, by PATCH /api/goals, or by the allocation
\* of POST /api/transactions
DepositStep ==
    \/ ChatStep("deposit")
    \/ reply'.op = "PATCH /api/goals" /\ reply'.status = 200
    \/ reply'.op = "POST /api/transactions" /\ reply'.status = 200

\* C6: a goal's currentSavedAmount is 0 when the goal is created, is never
\* negative, and no deposit (chat deposit, PATCH /api/goals with mode
\* 'deposit', allocation from a transaction) lowers it.
C6_DepositsNeverLowerSaved ==
    [][\A j \in DOMAIN goals' :
          /\ goals'[j].currentSavedAmount >= 0
          /\ (\A i \in DOMAIN goals : goals[i].id # goals'[j].id)
                 => goals'[j].currentSavedAmount = 0
          /\ DepositStep =>
                 \A i \in DOMAIN goals :
                     goals[i].id = goals'[j].id
                         => goals'[j].currentSavedAmount >= goals[i].currentSavedAmount]_vars

\* C7: marking a goal complete sets its currentSavedAmount to its
\* targetAmount and leaves its title, targetAmount, targetDate and rules, and
\* every other goal, as they were; the list the response reads afterwards
\* holds the goal with that amount.
C7_CompleteSetsSavedToTarget ==
    [][ChatStep("complete")
       => \E i \in DOMAIN goals :
              /\ goals[i].userId = reply'.userId
              /\ goals' = [goals EXCEPT ![i].currentSavedAmount = goals[i].targetAmount]
              /\ \E k \in DOMAIN reply'.updatedGoals.a :
                     /\ reply'.updatedGoals.a[k].id = goals[i].id
                     /\ reply'.updatedGoals.a[k].currentSavedAmount = goals[i].targetAmount]_vars

\* a goal of 400 francs has just been marked complete and the response lists it
C7_Witness ==
    /\ reply.op = "POST /api/chat"
    /\ reply.branch = "complete"
    /\ \E k \in DOMAIN reply.updatedGoals.a :
           /\ reply.updatedGoals.a[k].currentSavedAmount = 40000
           /\ reply.updatedGoals.a[k].targetAmount = 40000

-----------------------------------------------------------------------------
(* Specification SpecRules: the rules of one user's goals *)

ChatAboutRules == ChatOf({"u1"}, RuleUtterances, {"de", "en"}, Translators)

NextRules == ChatAboutRules

SpecRules == InitGoals /\ [][NextRules]_vars

\* the form of the monthly rule buildBilingualRules puts first
IsMonthlyRule(rule) ==
    /\ StartsWith(rule, "Jeden Monat ")
    /\ Len(rule) > 42
    /\ SubSeq(rule, Len(rule) - 29, Len(rule)) = " CHF aufs Sparkonto überweisen"

\* C3: after any sequence of chat requests (create, rule-add, rule-remove by
\* number or by text, update) every goal has a rule, and its first rule is
\* the monthly rule.
C3_FirstRuleIsMonthlyRule ==
    \A i \in DOMAIN goals :
        /\ goals[i].rules # <<>>
        /\ IsMonthlyRule(goals[i].rules[1])

-----------------------------------------------------------------------------
(* The synthesizer on its own: savingsGoalAgent and then buildBilingualRules *)
(* as the chat route applies them to a new goal                            *)

\* the calendar date with the same month and day one year on
PlusTwelveMonths(date) == NatToString(DateYear(date) + 1) \o SubSeq(date, 5, 10)

SynthAmounts == {JNum(120000), JStr("2500"), JNum(0), JUndef}

SynthDates ==
    {JStr(PlusTwelveMonths(today)), JStr(today), JStr("2025-12-31"), JStr("2027-06-15"),
     JStr("bald"), JUndef}

SynthRules ==
    JArr(<<"Jeden Monat 200 CHF aufs Sparkonto überweisen", "Impulskäufe vermeiden">>)

\* objects with every amount and date, and objects that hold an amount and a date only
SynthObjects ==
    {[goalTitle |-> JStr("Thailand trip"), targetAmount |-> amount, targetDate |-> date,
      rules |-> SynthRules] : amount \in SynthAmounts, date \in SynthDates}
    \cup {[goalTitle |-> JUndef, targetAmount |-> JNum(120000), targetDate |-> date,
           rules |-> JUndef] : date \in SynthDates}

\* the language of the user and the reply of the translator, asked for 'en' only
SynthLanguages ==
    {<<"de", RemoteFails>>, <<"en", RemoteAnswers(NullContent)>>,
     <<"en", RemoteAnswers(Text("Trip to Thailand"))>>}

SynthRemotes ==
    {RemoteFails, RemoteAnswers(Malformed), RemoteAnswers(NullContent),
     RemoteAnswers(Text("Gerne helfe ich dir beim Sparen."))}
    \cup {RemoteAnswers(Json(object)) : object \in SynthObjects}

\* a new goal is synthesized from a message: lines 684-699 of the chat route
\* up to the point at which the goal is stored
Synthesize ==
    \E remote \in SynthRemotes, language \in SynthLanguages :
        \E goalOutput \in {savingsGoalAgent("Ich möchte 400 CHF für Ferien sparen", remote)} :
            \E built \in {buildBilingualRules(goalOutput, language[1], NoGoal, language[2])} :
                /\ reply' = [op |-> "synthesize", lang |-> language[1], remote |-> remote,
                             goalOutput |-> goalOutput, goalTitle |-> built.goalTitle,
                             rules |-> built.rules]
                /\ UNCHANGED <<today, apiKey, users, goals, transactions>>

NextSynth == Synthesize

SpecSynth == Init /\ [][NextSynth]_vars

\* the object the completion service answered with, for a reply that used one
AnsweredObject == reply.remote.content.obj

Answered ==
    /\ reply.op = "synthesize"
    /\ apiKey
    /\ reply.remote.ok
    /\ reply.remote.content.kind = "json"

\* C8: a goal of 1200 CHF whose target date lies exactly twelve whole months
\* after today gets the monthly rule over 100.00 CHF
C8_TwelveMonthsGiveHundred ==
    (/\ Answered
     /\ AnsweredObject.targetAmount = JNum(120000)
     /\ AnsweredObject.targetDate = JStr(PlusTwelveMonths(today)))
    => reply.rules[1] = "Jeden Monat 100.00 CHF aufs Sparkonto überweisen"

\* today plus 180 days, from the calendar
In180Days ==
    CASE today = "2026-01-15" -> "2026-07-14"
      [] today = "2026-08-31" -> "2027-02-27"
      [] today = "2026-11-06" -> "2027-05-05"

NotInFuture(date) ==
    \/ date.t = "undefined"
    \/ date.t = "string" /\ ~IsISODate(date.s)
    \/ date.t = "string" /\ IsISODate(date.s) /\ DateParse(date.s) <= DateParse(today)

\* C9: a target date of the completion service that is missing, today, in the
\* past or no date is replaced by today plus 180 days, and the monthly rule is
\* computed from the replacement
C9_NonFutureDateReplaced ==
    (Answered /\ NotInFuture(AnsweredObject.targetDate))
    => /\ reply.goalOutput.targetDate = In180Days
       /\ reply.rules[1] = MonthlyRuleDe([n |-> reply.goalOutput.targetAmount, d |-> 6])

C9_Witness ==
    /\ Answered
    /\ today = "2026-11-06"
    /\ AnsweredObject.targetDate = JStr("2025-12-31")
    /\ AnsweredObject.targetAmount = JNum(120000)
    /\ reply.goalOutput.targetDate = "2027-05-05"
    /\ reply.rules[1] = "Jeden Monat 200.00 CHF aufs Sparkonto überweisen"

-----------------------------------------------------------------------------
(* Pattern detection of the budget planner, lib/agents.ts *)

\* isIncomeTransaction of the planner
PlannerIncomeKeywords ==
    <<"lohn", "salaer", "salär", "gehalt", "salary", "payroll", "einkommen", "bonus", "wage",
      "nebenjob", "werkstudent">>

isIncomeTransaction(t) ==
    \/ HasKeyword(toLowerCase(t.merchant) \o " " \o toLowerCase(OrEmpty(t.rawCategory)) \o " "
                  \o toLowerCase(OrEmpty(t.justification)), PlannerIncomeKeywords)
    \/ t.category \in {"Einnahmen", "Lohn", "Weitere Einnahmen"}

\* startDate and endDate are "" where the request has none
filterTransactionsByScope(list, month, timeframe, startDate, endDate) ==
    IF timeframe = "year"
    THEN SelectSeq(list, LAMBDA t : StartsWith(t.date, SubSeq(month, 1, 4)))
    ELSE IF timeframe = "custom" /\ startDate # "" /\ endDate # ""
    THEN SelectSeq(list, LAMBDA t : /\ DateParse(t.date) >= DateParse(startDate)
                                    /\ DateParse(t.date) <= DateParse(endDate))
    ELSE SelectSeq(list, LAMBDA t : StartsWith(t.date, month))

absAmount(t) == IF t.amount < 0 THEN -t.amount ELSE t.amount

RECURSIVE SumAbs(_)
SumAbs(list) == IF list = <<>> THEN 0 ELSE absAmount(Head(list)) + SumAbs(Tail(list))

\* Math.round and toFixed(0) of the fraction n / d, for n >= 0 and d > 0
RoundFraction(n, d) == (2 * n + d) \div (2 * d)

\* the entry that sort((a, b) => b.total - a.total)[0] selects from a Map filled
\* in the order of the list, keyAt[i] being the key of list[i]: the largest
\* total, the earliest inserted of equals
TopEntry(list, keyAt, keys) ==
    LET total(k) == SumAbs(SelectSeq(list, LAMBDA t : \E i \in DOMAIN list :
                                                         list[i] = t /\ keyAt[i] = k))
        first(k) == FirstOf({i \in DOMAIN list : keyAt[i] = k})
    IN CHOOSE k \in keys :
           \A o \in keys : \/ total(k) > total(o)
                           \/ total(k) = total(o) /\ first(k) <= first(o)

scopeStart(input) ==
    IF input.timeframe = "custom" /\ input.startDate # "" THEN DateParse(input.startDate)
    ELSE IF input.timeframe = "year" /\ input.month # ""
    THEN DaysFromCivil(ParseNat(SubSeq(input.month, 1, 4)), 1, 1)
    ELSE IF input.month # "" THEN DateParse(input.month \o "-01")
    ELSE DateParse(input.transactions[1].date)

scopeEnd(input) ==
    IF input.timeframe = "custom" /\ input.endDate # "" THEN DateParse(input.endDate)
    ELSE IF input.timeframe = "year" /\ input.month # ""
    THEN DaysFromCivil(ParseNat(SubSeq(input.month, 1, 4)), 12, 31)
    ELSE IF input.month # ""
    THEN LET first == input.month \o "-01"
         IN DateParse(first) + DaysInMonth(DateYear(first), DateMonth(first)) - 1
    ELSE DateParse(input.transactions[Len(input.transactions)].date)

\* Math.max(1, days)
AtLeastOne(days) == IF days < 1 THEN 1 ELSE days

\* Math.min(total, days)
AtMost(total, days) == IF days > total THEN total ELSE days

totalDays(input) == AtLeastOne(scopeEnd(input) - scopeStart(input) + 1)

\* the clock stands between two midnights, so the days since the start of the
\* scope round up to the next whole day
elapsedDays(input) ==
    AtMost(totalDays(input), AtLeastOne(DateParse(today) - scopeStart(input) + 2))

NoSpendingYet == "Noch keine Ausgaben für diesen Zeitraum."

TopCategoryPattern(input) ==
    LET list == input.transactions
        topCategory == TopEntry(list, [i \in DOMAIN list |-> list[i].category],
                                {list[i].category : i \in DOMAIN list})
        topAmount == SumAbs(SelectSeq(list, LAMBDA t : t.category = topCategory))
        totalSpent == SumAbs(list)
        percentage == IF totalSpent > 0 THEN RoundFraction(100 * topAmount, totalSpent) ELSE 0
    IN <<topCategory \o " macht " \o NatToString(percentage) \o "% deiner Ausgaben aus ("
         \o NatToString(RoundFraction(topAmount, 100)) \o " CHF).">>

\* n > factor * days and n < factor * days for days >= 1, by a division so that
\* the product of a ceiling and a number of days is never formed
Exceeds(n, factor, days) == factor <= (n - 1) \div days

FallsBelow(n, factor, days) == factor >= (n + days) \div days

\* a budget pace that warns as soon as the spending is above the plan and
\* praises as soon as it is below
PaceWithoutTolerance(input, elapsed, total) ==
    IF input.budget > 0
    THEN IF Exceeds(input.usedBudget * total, input.budget, elapsed)
         THEN <<"Budgetwarnung: Du liegst über Plan. Hochrechnung: ~"
                \o NatToString(RoundFraction(input.usedBudget * total, 100 * elapsed))
                \o " CHF vs. Budget " \o NatToString(RoundFraction(input.budget, 100))
                \o " CHF.">>
         ELSE IF FallsBelow(input.usedBudget * total, input.budget, elapsed)
         THEN <<"Gute Pace: Du liegst unter deinem geplanten Budget-Verlauf.">>
         ELSE <<>>
    ELSE <<>>

\* usedBudget > expectedSpend * 1.1 and usedBudget < expectedSpend * 0.8 in whole
\* numbers, for the elapsed and the total days of the scope
PacePattern(input, elapsed, total) ==
    IF input.budget > 0
    THEN IF Exceeds(10 * input.usedBudget * total, 11 * input.budget, elapsed)
         THEN <<"Budgetwarnung: Du liegst über Plan. Hochrechnung: ~"
                \o NatToString(RoundFraction(input.usedBudget * total, 100 * elapsed))
                \o " CHF vs. Budget " \o NatToString(RoundFraction(input.budget, 100))
                \o " CHF.">>
         ELSE IF FallsBelow(10 * input.usedBudget * total, 8 * input.budget, elapsed)
         THEN <<"Gute Pace: Du liegst unter deinem geplanten Budget-Verlauf.">>
         ELSE <<>>
    ELSE <<>>

BudgetPacePattern(input) == PacePattern(input, elapsedDays(input), totalDays(input))

\* secondHalf > firstHalf * 1.2 and firstHalf > secondHalf * 1.2 in whole numbers
HalvesPattern(firstHalf, secondHalf) ==
    IF firstHalf > 0 /\ 10 * secondHalf > 12 * firstHalf
    THEN <<"Deine Ausgaben steigen in der zweiten Hälfte des Zeitraums. Prüfe wiederkehrende Käufe.">>
    ELSE IF secondHalf > 0 /\ 10 * firstHalf > 12 * secondHalf
    THEN <<"Deine Ausgaben waren zu Beginn des Zeitraums höher. Gut, dass du zuletzt sparsamer warst.">>
    ELSE <<>>

\* a split of the scope that counts the middle in the second half
FirstHalfBeforeMiddle(list, twiceMid) ==
    SumAbs(SelectSeq(list, LAMBDA t : 2 * DateParse(t.date) < twiceMid))

\* the spending up to the middle of the scope, twiceMid being twice its day number
FirstHalf(list, twiceMid) ==
    SumAbs(SelectSeq(list, LAMBDA t : 2 * DateParse(t.date) <= twiceMid))

TrendHalves(list, firstHalf) == HalvesPattern(firstHalf, SumAbs(list) - firstHalf)

TrendPattern(input) ==
    TrendHalves(input.transactions,
                FirstHalf(input.transactions, scopeStart(input) + scopeEnd(input)))

ImpulseRatePattern(input) ==
    LET list == input.transactions
        impulseTransactions == SelectSeq(list, LAMBDA t : t.isImpulse)
    IN IF Len(impulseTransactions) > 0
       THEN <<NatToString(RoundFraction(100 * Len(impulseTransactions), Len(list)))
              \o "% deiner Käufe sind Impulskäufe. Versuche, vor dem Kauf eine Pause einzulegen.">>
       ELSE <<>>

\* a recurring-merchant detection that asks for two payments only
RecurringFromTwoPayments(list) ==
    {m \in {list[i].merchant : i \in DOMAIN list} :
        LET amounts == {absAmount(list[i]) : i \in {j \in DOMAIN list : list[j].merchant = m}}
            count == Len(SelectSeq(list, LAMBDA t : t.merchant = m))
            total == SumAbs(SelectSeq(list, LAMBDA t : t.merchant = m))
            max == CHOOSE a \in amounts : \A b \in amounts : a >= b
            min == CHOOSE a \in amounts : \A b \in amounts : a <= b
        IN /\ count >= 2
           /\ total > 0
           /\ 10 * (max - min) * count <= 3 * total}

\* merchants with at least three payments whose (max - min) / avg is at most 0.3
RecurringMerchants(list) ==
    {m \in {list[i].merchant : i \in DOMAIN list} :
        LET amounts == {absAmount(list[i]) : i \in {j \in DOMAIN list : list[j].merchant = m}}
            count == Len(SelectSeq(list, LAMBDA t : t.merchant = m))
            total == SumAbs(SelectSeq(list, LAMBDA t : t.merchant = m))
            max == CHOOSE a \in amounts : \A b \in amounts : a >= b
            min == CHOOSE a \in amounts : \A b \in amounts : a <= b
        IN /\ count >= 3
           /\ total > 0
           /\ 10 * (max - min) * count <= 3 * total}

RecurringPattern(input) ==
    LET list == input.transactions
        recurring == RecurringMerchants(list)
        merchant == TopEntry(list, [i \in DOMAIN list |-> list[i].merchant], recurring)
        payments == SelectSeq(list, LAMBDA t : t.merchant = merchant)
    IN IF recurring # {}
       THEN <<"Wiederkehrende Zahlungen: " \o merchant \o " (" \o NatToString(Len(payments))
              \o "x, Ø " \o RateToFixed2([n |-> SumAbs(payments), d |-> Len(payments)])
              \o " CHF). Prüfe, ob du das Abo brauchst.">>
       ELSE <<>>

dayNames ==
    <<"Sonntag", "Montag", "Dienstag", "Mittwoch", "Donnerstag", "Freitag", "Samstag">>

DayOf(t) == dayNames[getDay(DateParse(t.date)) + 1]

WeekdayPattern(input) ==
    LET list == input.transactions
        mostExpensiveDay == TopEntry(list, [i \in DOMAIN list |-> DayOf(list[i])],
                                     {DayOf(list[i]) : i \in DOMAIN list})
        onDay == SelectSeq(list, LAMBDA t : DayOf(t) = mostExpensiveDay)
    IN <<mostExpensiveDay \o " ist dein teuerster Tag (Durchschnitt "
         \o RateToFixed2([n |-> SumAbs(onDay), d |-> Len(onDay)]) \o " CHF).">>

\* a pattern detection that pushes the weekday pattern first
WeekdayFirstPatterns(input) ==
    WeekdayPattern(input) \o TopCategoryPattern(input) \o BudgetPacePattern(input)
    \o TrendPattern(input) \o ImpulseRatePattern(input) \o RecurringPattern(input)

\* the patterns in the order in which detectPatterns pushes them
TriggeredPatterns(input) ==
    TopCategoryPattern(input) \o BudgetPacePattern(input) \o TrendPattern(input)
    \o ImpulseRatePattern(input) \o RecurringPattern(input) \o WeekdayPattern(input)

\* a pattern detection that returns every pattern it found
DetectPatternsUnsliced(input) ==
    IF Len(input.transactions) = 0 THEN <<NoSpendingYet>> ELSE TriggeredPatterns(input)

\* patterns.slice(0, 3)
FirstThree(patterns) == SubSeq(patterns, 1, AtMost(3, Len(patterns)))

detectPatterns(input) ==
    IF Len(input.transactions) = 0 THEN <<NoSpendingYet>>
    ELSE FirstThree(TriggeredPatterns(input))

-----------------------------------------------------------------------------
(* Pattern detection on the stored transactions of a user, as the planner  *)
(* calls it for GET /api/analysis                                          *)

PatternRow(date, merchant, amount, category, isImpulse) ==
    [userId |-> "u1", date |-> date, merchant |-> merchant, amount |-> amount,
     rawCategory |-> JNull, category |-> category, justification |-> JNull,
     isImpulse |-> isImpulse,
     decisionLabel |-> IF isImpulse THEN "unnecessary" ELSE "useful",
     decisionExplanation |-> "Manuell gesetzt auf " \o category]

PatternRows ==
    {PatternRow("2026-08-03", "Kiosk", 1290, "Sonstiges", FALSE),
     PatternRow("2026-08-16", "Zalando", 8950, "Shopping", TRUE),
     PatternRow("2026-08-20", "Coop", 2340, "Lebensmittel", FALSE),
     PatternRow("2026-11-02", "Kiosk", 1350, "Sonstiges", FALSE),
     PatternRow("2026-11-03", "Coop", 4520, "Lebensmittel", FALSE),
     PatternRow("2026-11-05", "Restaurant Adler", -6000, "Gastronomie", TRUE),
     PatternRow("2026-01-10", "Lohn ACME AG", 500000, "Einnahmen", FALSE)}

\* the tables of at most MaxPatternTx rows, with the ids of their positions
PatternTables ==
    UNION {{[i \in 1..n |-> [id |-> "t" \o NatToString(i)] @@ rows[i]] :
               rows \in [1..n -> PatternRows]} : n \in 0..MaxPatternTx}

\* scope, startDate and endDate of the request; a range needs both dates
PatternScopes ==
    {[timeframe |-> "month", startDate |-> "", endDate |-> ""],
     [timeframe |-> "year", startDate |-> "", endDate |-> ""],
     [timeframe |-> "custom", startDate |-> "2026-08-01", endDate |-> "2026-11-30"]}

\* ceilings of 0, 100 and 3000 CHF
PatternBudgets == {0, 10000, 300000}

\* expenseTransactions of budgetPlannerAgent for the current month, lines 274-276
ExpensesInScope(scope) ==
    SelectSeq(filterTransactionsByScope(getTransactions("u1"), SubSeq(today, 1, 7),
                                        scope.timeframe, scope.startDate, scope.endDate),
              LAMBDA t : ~isIncomeTransaction(t))

\* the input budgetPlannerAgent hands to detectPatterns, lines 306-323, for a ceiling
PatternInput(scope, expenseTransactions, budget) ==
    [transactions |-> expenseTransactions, timeframe |-> scope.timeframe,
     budget |-> budget, usedBudget |-> SumAbs(expenseTransactions),
     startDate |-> scope.startDate, endDate |-> scope.endDate, month |-> SubSeq(today, 1, 7)]

DetectPatterns ==
    \E scope \in PatternScopes :
        \E expenseTransactions \in {ExpensesInScope(scope)} :
            \E budget \in PatternBudgets :
                \E input \in {PatternInput(scope, expenseTransactions, budget)} :
                    /\ reply' = [op |-> "detectPatterns", input |-> input,
                                 patterns |-> detectPatterns(input)]
                    /\ UNCHANGED <<today, apiKey, users, goals, transactions>>

InitPatterns ==
    /\ today \in Todays
    /\ apiKey = TRUE
    /\ users = <<>>
    /\ goals = <<>>
    /\ transactions \in PatternTables
    /\ reply = NoReply

NextPatterns == DetectPatterns

SpecPatterns == InitPatterns /\ [][NextPatterns]_vars

\* C10: pattern detection returns at most three texts, and it returns the
\* single text that no spending exists yet exactly for an empty list of expenses
C10_AtMostThreePatterns ==
    reply.op = "detectPatterns"
    => /\ Len(reply.patterns) <= 3
       /\ reply.patterns = <<NoSpendingYet>> <=> reply.input.transactions = <<>>

C10_Witness ==
    /\ reply.op = "detectPatterns"
    /\ Len(reply.input.transactions) = 3
    /\ reply.input.budget = 10000
    /\ \E i \in DOMAIN reply.input.transactions : reply.input.transactions[i].isImpulse
    /\ Len(reply.patterns) = 3

-----------------------------------------------------------------------------
(* The order of the returned patterns *)

\* what each of the six candidate patterns gives on its own, in the order top
\* category, budget pace, trend, impulse rate, recurring merchant, weekday
Candidates(input) ==
    <<TopCategoryPattern(input), BudgetPacePattern(input), TrendPattern(input),
      ImpulseRatePattern(input), RecurringPattern(input), WeekdayPattern(input)>>

TriggeredAt(candidates) == {k \in DOMAIN candidates : candidates[k] # <<>>}

EarlierTriggered(candidates, k) == Cardinality({j \in TriggeredAt(candidates) : j < k})

\* patterns holds the first three triggered candidates, each at the place of its rank
InEvaluationOrder(candidates, patterns) ==
    /\ Len(patterns) = AtMost(3, Cardinality(TriggeredAt(candidates)))
    /\ \A k \in TriggeredAt(candidates) :
           EarlierTriggered(candidates, k) < 3
           => patterns[EarlierTriggered(candidates, k) + 1] = candidates[k][1]

\* C11: for a non-empty list of expenses detectPatterns returns exactly the first
\* (at most three) triggered patterns in the order top category, budget pace,
\* trend, impulse rate, recurring merchant, weekday: a later pattern is returned
\* only when fewer than three earlier ones triggered, and the order is kept
C11_FirstThreeInEvaluationOrder ==
    (reply.op = "detectPatterns" /\ reply.input.transactions # <<>>)
    => InEvaluationOrder(Candidates(reply.input), reply.patterns)

\* budget pace and trend trigger, so the triggered impulse rate is left out
C11_Witness ==
    /\ reply.op = "detectPatterns"
    /\ reply.input.transactions # <<>>
    /\ BudgetPacePattern(reply.input) # <<>>
    /\ TrendPattern(reply.input) # <<>>
    /\ ImpulseRatePattern(reply.input) # <<>>
    /\ reply.patterns = TopCategoryPattern(reply.input) \o BudgetPacePattern(reply.input)
                        \o TrendPattern(reply.input)

-----------------------------------------------------------------------------
(* The budget pace among the returned patterns *)

OverrunWarned(patterns) ==
    \E k \in DOMAIN patterns : StartsWith(patterns[k], "Budgetwarnung: Du liegst über Plan.")

GoodPacePraised(patterns) ==
    \E k \in DOMAIN patterns :
        patterns[k] = "Gute Pace: Du liegst unter deinem geplanten Budget-Verlauf."

\* used > 1.1 x ceiling x elapsed / total and used < 0.8 x ceiling x elapsed / total
AboveTolerance(used, ceiling, elapsed, total) == 10 * used * total > 11 * ceiling * elapsed

BelowTolerance(used, ceiling, elapsed, total) == 10 * used * total < 8 * ceiling * elapsed

PaceAsClaimed(input, patterns, elapsed, total) ==
    /\ total >= 1
    /\ elapsed >= 1
    /\ elapsed <= total
    /\ OverrunWarned(patterns)
           <=> (input.budget > 0
                /\ AboveTolerance(input.usedBudget, input.budget, elapsed, total))
    /\ GoodPacePraised(patterns)
           <=> (input.budget > 0
                /\ BelowTolerance(input.usedBudget, input.budget, elapsed, total))
    /\ ~(OverrunWarned(patterns) /\ GoodPacePraised(patterns))

-----------------------------------------------------------------------------
(* The trend between the two halves of the scope *)

RisingTold(patterns) ==
    \E k \in DOMAIN patterns :
        patterns[k] = "Deine Ausgaben steigen in der zweiten Hälfte des Zeitraums. Prüfe wiederkehrende Käufe."

FallingTold(patterns) ==
    \E k \in DOMAIN patterns :
        patterns[k] = "Deine Ausgaben waren zu Beginn des Zeitraums höher. Gut, dass du zuletzt sparsamer warst."

\* twice the day of a transaction against the sum of the first and the last
\* day of the scope: below it before the middle, equal to it at the middle
UpToMiddle(input) ==
    SelectSeq(input.transactions,
              LAMBDA t : 2 * DateParse(t.date) <= scopeStart(input) + scopeEnd(input))

AfterMiddle(input) ==
    SelectSeq(input.transactions,
              LAMBDA t : 2 * DateParse(t.date) > scopeStart(input) + scopeEnd(input))

AtMiddle(input) ==
    SelectSeq(input.transactions,
              LAMBDA t : 2 * DateParse(t.date) = scopeStart(input) + scopeEnd(input))

TrendAsClaimed(patterns, first, second) ==
    /\ RisingTold(patterns) <=> (first > 0 /\ 10 * second > 12 * first)
    /\ FallingTold(patterns) <=> (second > 0 /\ 10 * first > 12 * second)
    /\ ~(RisingTold(patterns) /\ FallingTold(patterns))

\* C25: with the expenses of the scope split at the middle of the scope, a
\* transaction dated at the middle counting in the first half, the rising
\* text is returned exactly when the first half is above 0 and the second
\* half above 1.2 x the first, the falling text exactly when the second half
\* is above 0 and the first half above 1.2 x the second, and never both
C25_TrendBetweenHalves ==
    reply.op = "detectPatterns"
    => TrendAsClaimed(reply.patterns, SumAbs(UpToMiddle(reply.input)),
                      SumAbs(AfterMiddle(reply.input)))

\* a purchase dated at the middle of the month counts in the first half, a
\* smaller one follows, and the falling text is returned
C25_Witness ==
    /\ reply.op = "detectPatterns"
    /\ reply.input.timeframe = "month"
    /\ AtMiddle(reply.input) # <<>>
    /\ Len(UpToMiddle(reply.input)) = Len(AtMiddle(reply.input))
    /\ AfterMiddle(reply.input) # <<>>
    /\ FallingTold(reply.patterns)

-----------------------------------------------------------------------------
(* Specification SpecRecurring: pattern detection on tables with merchants *)
(* that are paid several times                                             *)

\* the payments to one merchant, in Rappen: none, two equal, three equal, three
\* within 30% of their average, three at exactly 30%, three beyond
NetflixPayments ==
    {<<>>, <<1790, 1790>>, <<1790, 1790, 1790>>, <<1790, 1990, 2290>>, <<1000, 1500, 2000>>}

SpotifyPayments == {<<>>, <<1295, 1295>>, <<1295, 1295, 1295>>, <<3000, 3000, 3000>>}

GymPayments == {<<>>, <<8500, 10000, 11500>>, <<8500, 10000, 11600>>, <<597, 597, 597, 597>>}

RecurringDates == <<"2026-11-02", "2026-11-03", "2026-11-05", "2026-11-01">>

PaymentsTo(merchant, category, amounts) ==
    [i \in DOMAIN amounts |-> PatternRow(RecurringDates[i], merchant, amounts[i], category, FALSE)]

WithIds(rows) == [i \in DOMAIN rows |-> [id |-> "t" \o NatToString(i)] @@ rows[i]]

\* the tables with the payments of the three merchants, in either order
RecurringTables ==
    UNION {{WithIds(PaymentsTo("Netflix", "Abos", n) \o PaymentsTo("Spotify", "Abos", s)
                    \o PaymentsTo("Fitnesspark", "Sport", g)),
            WithIds(PaymentsTo("Fitnesspark", "Sport", g) \o PaymentsTo("Spotify", "Abos", s)
                    \o PaymentsTo("Netflix", "Abos", n))} :
               n \in NetflixPayments, s \in SpotifyPayments, g \in GymPayments}

InitRecurring ==
    /\ today = "2026-11-06"
    /\ apiKey = TRUE
    /\ users = <<>>
    /\ goals = <<>>
    /\ transactions \in RecurringTables
    /\ reply = NoReply

SpecRecurring == InitRecurring /\ [][NextPatterns]_vars

PaymentsOf(list, merchant) == SelectSeq(list, LAMBDA t : t.merchant = merchant)

LargestPayment(list) == CHOOSE a \in {absAmount(list[i]) : i \in DOMAIN list} :
                            \A i \in DOMAIN list : a >= absAmount(list[i])

SmallestPayment(list) == CHOOSE a \in {absAmount(list[i]) : i \in DOMAIN list} :
                             \A i \in DOMAIN list : a <= absAmount(list[i])

\* at least three payments with (max - min) / average <= 0.3, the average being
\* SumAbs / Len and greater than 0
Qualifies(payments) ==
    /\ Len(payments) >= 3
    /\ SumAbs(payments) > 0
    /\ 10 * (LargestPayment(payments) - SmallestPayment(payments)) * Len(payments)
       <= 3 * SumAbs(payments)

MerchantsOf(list) == {list[i].merchant : i \in DOMAIN list}

\* the text is the recurring-payments pattern for this merchant
NamesMerchant(text, merchant) ==
    StartsWith(text, "Wiederkehrende Zahlungen: " \o merchant \o " (")

\* the merchant qualifies and no qualifying merchant has a larger average x count
NamedRightly(list, merchant) ==
    /\ Qualifies(PaymentsOf(list, merchant))
    /\ \A other \in MerchantsOf(list) :
           Qualifies(PaymentsOf(list, other))
           => SumAbs(PaymentsOf(list, other)) <= SumAbs(PaymentsOf(list, merchant))

\* C12: a recurring-payments pattern names only a merchant with at least three
\* expenses in scope whose (max - min) / average is at most 0.3, never one with
\* two payments, and of the qualifying merchants the one with the largest
\* average x count
C12_RecurringNeedsThreePayments ==
    reply.op = "detectPatterns"
    => \A i \in DOMAIN reply.patterns :
           StartsWith(reply.patterns[i], "Wiederkehrende Zahlungen: ")
           => \E merchant \in MerchantsOf(reply.input.transactions) :
                  /\ NamesMerchant(reply.patterns[i], merchant)
                  /\ NamedRightly(reply.input.transactions, merchant)

\* Netflix is paid three times within 30%, Spotify twice with equal amounts, the
\* gym three times at exactly 30% and with the larger sum: the gym is named
C12_Witness ==
    /\ reply.op = "detectPatterns"
    /\ Len(PaymentsOf(reply.input.transactions, "Spotify")) = 2
    /\ Qualifies(PaymentsOf(reply.input.transactions, "Netflix"))
    /\ \E i \in DOMAIN reply.input.transactions :
           /\ reply.input.transactions[i].merchant = "Fitnesspark"
           /\ reply.input.transactions[i].amount = 11500
    /\ \E i \in DOMAIN reply.patterns :
           reply.patterns[i] = "Wiederkehrende Zahlungen: Fitnesspark (3x, Ø 100.00 CHF). Prüfe, ob du das Abo brauchst."

-----------------------------------------------------------------------------
(* The budget planner, lib/agents.ts: the months of a scope *)

\* the positions of the separators of s.split('-')
DashesOf(s) == {i \in 1..Len(s) : CharAt(s, i) = "-"}

\* s.split('-')[0]
PartBeforeDash(s, dash) == IF dash = 0 THEN s ELSE SubSeq(s, 1, dash - 1)

\* s.split('-')[1] for the first separator and the one after it (0 for none)
PartAfterDash(s, dash, next) ==
    IF dash = 0 THEN JUndef
    ELSE JStr(SubSeq(s, dash + 1, IF next = 0 THEN Len(s) ELSE next - 1))

FirstPart(s) == JStr(PartBeforeDash(s, FirstOf(DashesOf(s))))

SecondPart(s) ==
    PartAfterDash(s, FirstOf(DashesOf(s)),
                  FirstOf({i \in DashesOf(s) : i > FirstOf(DashesOf(s))}))

\* Number(part) as a count: digits are their value, '' is 0, undefined and every
\* other text of the model are NaN
CountOf(part) ==
    IF part.t # "string" THEN JNaN
    ELSE IF part.s = "" THEN JNum(0)
    ELSE IF AllDigits(part.s) THEN JNum(ParseNat(part.s))
    ELSE JNaN

\* (ey - sy) * 12 + (em - sm) + 1, NaN when a part is
MonthDifference(sy, sm, ey, em) ==
    IF \E v \in {sy, sm, ey, em} : v.t = "NaN" THEN JNaN
    ELSE JNum((ey.n - sy.n) * 12 + (em.n - sm.n) + 1)

\* Math.max(1, v)
MaxWithOne(v) == IF v.t = "NaN" THEN JNaN ELSE JNum(AtLeastOne(v.n))

\* startDate and endDate are "" where the caller has none
calculateMonthsInScope(timeframe, month, startDate, endDate) ==
    IF timeframe = "year" THEN MaxWithOne(CountOf(SecondPart(month)))
    ELSE IF timeframe = "custom" /\ startDate # "" /\ endDate # ""
    THEN MaxWithOne(MonthDifference(CountOf(FirstPart(startDate)), CountOf(SecondPart(startDate)),
                                    CountOf(FirstPart(endDate)), CountOf(SecondPart(endDate))))
    ELSE JNum(1)

-----------------------------------------------------------------------------
(* Specification SpecMonths: calculateMonthsInScope on the scopes a request *)
(* can name; startDate and endDate are query parameters, any text          *)

ScopeTimeframes == {"month", "year", "custom"}

ScopeMonths == {"2026-01", "2026-08", "2026-11", "2026-12"}

ScopeDates == {"", "2025-12-31", "2026-08-01", "2026-11-30", "2027-03-31", "2026", "bald"}

CalculateMonths ==
    \E timeframe \in ScopeTimeframes, month \in ScopeMonths,
       startDate \in ScopeDates, endDate \in ScopeDates :
        /\ reply' = [op |-> "calculateMonthsInScope", timeframe |-> timeframe,
                     month |-> month, startDate |-> startDate, endDate |-> endDate,
                     months |-> calculateMonthsInScope(timeframe, month, startDate, endDate)]
        /\ UNCHANGED <<today, apiKey, users, goals, transactions>>

NextMonths == CalculateMonths

SpecMonths == Init /\ [][NextMonths]_vars

\* the inclusive month difference of two ISO dates
InclusiveMonths(startDate, endDate) ==
    (DateYear(endDate) - DateYear(startDate)) * 12
    + (DateMonth(endDate) - DateMonth(startDate)) + 1

\* C15: calculateMonthsInScope returns the month number of the reference month
\* for 'year', the inclusive month difference (at least 1) for 'custom' with both
\* dates, 1 for 'month', and a number that is at least 1 for every input
C15_MonthsInScopeAtLeastOne ==
    reply.op = "calculateMonthsInScope"
    => /\ reply.months.t = "number" /\ reply.months.n >= 1
       /\ reply.timeframe = "year" => reply.months = JNum(ParseNat(SubSeq(reply.month, 6, 7)))
       /\ reply.timeframe = "month" => reply.months = JNum(1)
       /\ (reply.timeframe = "custom" /\ IsISODate(reply.startDate) /\ IsISODate(reply.endDate))
          => reply.months = JNum(AtLeastOne(InclusiveMonths(reply.startDate, reply.endDate)))

-----------------------------------------------------------------------------
(* The budget planner, lib/agents.ts: ceiling, spending, spending by        *)
(* category. The amounts of the model are chosen so that 60% of an income   *)
(* and the average of the salaries are whole numbers of Rappen.             *)

PlannerSalaryKeywords ==
    <<"lohn", "salaer", "salär", "gehalt", "salary", "payroll", "wage", "nebenjob",
      "werkstudent">>

isSalaryTransaction(t) ==
    \/ HasKeyword(toLowerCase(t.merchant) \o " " \o toLowerCase(OrEmpty(t.rawCategory)) \o " "
                  \o toLowerCase(OrEmpty(t.justification)) \o " " \o toLowerCase(t.category),
                  PlannerSalaryKeywords)
    \/ t.category = "Lohn"

\* diff >= 0 && diff < 12, for diff + 1 (false for NaN)
WithinTwelve(difference) ==
    difference.t = "number" /\ difference.n >= 1 /\ difference.n <= 12

isWithinLastTwelveMonths(monthKey, referenceMonth) ==
    WithinTwelve(MonthDifference(CountOf(FirstPart(monthKey)), CountOf(SecondPart(monthKey)),
                                 CountOf(FirstPart(referenceMonth)),
                                 CountOf(SecondPart(referenceMonth))))

\* the salaries of the months that count for the reference month
SalariesWithin(list, referenceMonth) ==
    SelectSeq(list, LAMBDA t : /\ isSalaryTransaction(t)
                               /\ isWithinLastTwelveMonths(SubSeq(t.date, 1, 7), referenceMonth))

\* the average as the fraction n / d: the salaries over the months that have one
AverageOf(salaries) ==
    IF salaries = <<>> THEN [n |-> 0, d |-> 1]
    ELSE [n |-> SumAbs(salaries),
          d |-> Cardinality({SubSeq(salaries[i].date, 1, 7) : i \in DOMAIN salaries})]

inferMonthlySalaryFromHistory(list, referenceMonth) ==
    AverageOf(SalariesWithin(list, referenceMonth))

\* a ceiling that forgets the months of the scope
SixtyPercentOnce(rate, monthsInScope) ==
    IF monthsInScope.t = "NaN" THEN JNaN ELSE JNum((3 * rate.n) \div (5 * rate.d))

\* rate * 0.6 * monthsInScope for the fraction rate
SixtyPercentTimes(rate, monthsInScope) ==
    IF monthsInScope.t = "NaN" THEN JNaN
    ELSE JNum((3 * rate.n * monthsInScope.n) \div (5 * rate.d))

\* a ceiling that asks the history of salaries before the salaries in scope
HistoryFirstBudget(budgetMode, monthlyNetIncome, salarySumInScope, inferredSalary, monthsInScope) ==
    IF budgetMode = "manual"
    THEN IF monthlyNetIncome > 0
         THEN SixtyPercentTimes([n |-> monthlyNetIncome, d |-> 1], monthsInScope)
         ELSE JNum(0)
    ELSE IF inferredSalary.n > 0 THEN SixtyPercentTimes(inferredSalary, monthsInScope)
    ELSE IF salarySumInScope > 0 THEN JNum(salarySumInScope)
    ELSE SixtyPercentTimes([n |-> monthlyNetIncome, d |-> 1], monthsInScope)

scopedBudget(budgetMode, monthlyNetIncome, salarySumInScope, inferredSalary, monthsInScope) ==
    IF budgetMode = "manual"
    THEN IF monthlyNetIncome > 0
         THEN SixtyPercentTimes([n |-> monthlyNetIncome, d |-> 1], monthsInScope)
         ELSE JNum(0)
    ELSE IF salarySumInScope > 0 THEN JNum(salarySumInScope)
    ELSE IF inferredSalary.n > 0 THEN SixtyPercentTimes(inferredSalary, monthsInScope)
    ELSE SixtyPercentTimes([n |-> monthlyNetIncome, d |-> 1], monthsInScope)

\* the keys of the Map, in the order in which forEach inserts them
RECURSIVE CategoriesOf(_)
CategoriesOf(list) ==
    IF list = <<>> THEN <<>>
    ELSE <<Head(list).category>>
         \o CategoriesOf(SelectSeq(Tail(list), LAMBDA t : t.category # Head(list).category))

\* current + t.amount over the list: the amounts with their signs
RECURSIVE SumAmounts(_)
SumAmounts(list) == IF list = <<>> THEN 0 ELSE Head(list).amount + SumAmounts(Tail(list))

CategoryEntries(list, categories) ==
    [i \in DOMAIN categories |->
        [category |-> categories[i],
         amount |-> SumAmounts(SelectSeq(list, LAMBDA t : t.category = categories[i]))]]

\* entry placed behind the entries that are not smaller, as the stable sort does
InsertByAmount(sorted, entry) ==
    SelectSeq(sorted, LAMBDA e : e.amount >= entry.amount) \o <<entry>>
    \o SelectSeq(sorted, LAMBDA e : e.amount < entry.amount)

\* sort((a, b) => b.amount - a.amount)
RECURSIVE SortByAmount(_)
SortByAmount(entries) ==
    IF entries = <<>> THEN <<>>
    ELSE InsertByAmount(SortByAmount(SubSeq(entries, 1, Len(entries) - 1)),
                        entries[Len(entries)])

\* a grouping that leaves the categories in the order of the Map
UnsortedByCategory(expenseTransactions) ==
    CategoryEntries(expenseTransactions, CategoriesOf(expenseTransactions))

byCategory(expenseTransactions) ==
    SortByAmount(CategoryEntries(expenseTransactions, CategoriesOf(expenseTransactions)))

\* scopedTransactions
ScopedOf(input) ==
    filterTransactionsByScope(input.transactions, input.month, input.timeframe,
                              input.startDate, input.endDate)

\* endDate ? endDate.slice(0, 7) : month
ReferenceMonthOf(input) ==
    IF input.endDate # "" THEN SubSeq(input.endDate, 1, AtMost(7, Len(input.endDate)))
    ELSE input.month

\* what the agent returns for its expenses and its ceiling; a ceiling that is
\* NaN is falsy for detectPatterns as 0 is
PlannerOutput(input, expenseTransactions, budget) ==
    [monthlyBudget |-> budget,
     usedBudget |-> SumAbs(expenseTransactions),
     byCategory |-> byCategory(expenseTransactions),
     patterns |-> detectPatterns(
         [transactions |-> expenseTransactions, timeframe |-> input.timeframe,
          budget |-> IF budget.t = "number" THEN budget.n ELSE 0,
          usedBudget |-> SumAbs(expenseTransactions),
          startDate |-> input.startDate, endDate |-> input.endDate, month |-> input.month]),
     timeframe |-> input.timeframe]

budgetPlannerAgent(input) ==
    PlannerOutput(input,
        SelectSeq(ScopedOf(input), LAMBDA t : ~isIncomeTransaction(t)),
        scopedBudget(input.budgetMode, input.monthlyNetIncome,
                     SumAbs(SelectSeq(ScopedOf(input), isSalaryTransaction)),
                     inferMonthlySalaryFromHistory(input.transactions, ReferenceMonthOf(input)),
                     calculateMonthsInScope(input.timeframe, input.month, input.startDate,
                                            input.endDate)))

-----------------------------------------------------------------------------
(* GET /api/analysis and PATCH /api/user *)

\* the row of the user, 0 for none
getUser(userId) == RowOf(users, userId)

updateUserIncome(userId, monthlyNetIncome) ==
    [users EXCEPT ![RowOf(users, userId)].monthlyNetIncome = monthlyNetIncome]

\* timeframe of the route for its query parameters, "" being a parameter not sent
TimeframeOf(scope, startDate, endDate) ==
    IF startDate # "" /\ endDate # "" THEN "custom"
    ELSE IF scope = "year" THEN "year" ELSE "month"

\* the impulse purchases of the chosen scope
ImpulseInScope(list, timeframe, startDate, endDate) ==
    SelectSeq(filterTransactionsByScope(list, SubSeq(today, 1, 7), timeframe, startDate, endDate),
              LAMBDA t : t.isImpulse)

AnalysisResponse(userId, budgetSummary, impulseTransactions) ==
    [status |-> 200, users |-> users,
     budgetSummary |-> [userId |-> userId, month |-> SubSeq(today, 1, 7),
                        monthlyBudget |-> budgetSummary.monthlyBudget,
                        usedBudget |-> budgetSummary.usedBudget,
                        byCategory |-> budgetSummary.byCategory,
                        timeframe |-> budgetSummary.timeframe],
     impulseTransactions |-> impulseTransactions,
     goals |-> getSavingsGoals(userId),
     patterns |-> budgetSummary.patterns]

\* a response without a body that matters
UserResponse(status, table) == [status |-> status, users |-> table]

\* GET /api/analysis
AnalysisRoute(token, scope, budgetMode, startDate, endDate) ==
    IF ~Authorized(token) THEN UserResponse(500, users)
    ELSE IF getUser(token) = 0 THEN UserResponse(404, users)
    ELSE AnalysisResponse(token,
             budgetPlannerAgent(
                 [userId |-> token, monthlyNetIncome |-> users[getUser(token)].monthlyNetIncome,
                  transactions |-> getTransactions(token), month |-> SubSeq(today, 1, 7),
                  timeframe |-> TimeframeOf(scope, startDate, endDate),
                  budgetMode |-> IF budgetMode = "manual" THEN "manual" ELSE "auto",
                  startDate |-> startDate, endDate |-> endDate]),
             ImpulseInScope(getTransactions(token), TimeframeOf(scope, startDate, endDate),
                            startDate, endDate))

\* Math.max(0, Number(monthlyBudget) / 0.6)
IncomeFor(monthlyBudget) == AtLeastZero((5 * monthlyBudget.n) \div 3)

\* PATCH /api/user
UserRoute(token, body) ==
    IF ~Authorized(token) THEN UserResponse(500, users)
    ELSE IF body.monthlyBudget = JUndef \/ Number(body.monthlyBudget).t = "NaN"
    THEN UserResponse(400, users)
    ELSE IF getUser(token) = 0 THEN UserResponse(404, users)
    ELSE UserResponse(200, updateUserIncome(token, IncomeFor(Number(body.monthlyBudget))))

-----------------------------------------------------------------------------
(* Specification SpecBudget: the analysis of one user's history, and the   *)
(* budget dialog that sets the user's income                               *)

\* salaries of the user: none, January, November, both
BudgetSalaries ==
    {<<>>,
     <<PatternRow("2026-01-10", "Lohn ACME AG", 500000, "Einnahmen", FALSE)>>,
     <<PatternRow("2026-11-01", "ACME AG", 520000, "Lohn", FALSE)>>,
     <<PatternRow("2026-01-10", "Lohn ACME AG", 500000, "Einnahmen", FALSE),
       PatternRow("2026-11-01", "ACME AG", 520000, "Lohn", FALSE)>>}

\* expenses of the user: none, two on a day of November, those with a refund-like
\* negative amount, a second purchase in a category and a purchase in August
BudgetExpenses ==
    {<<>>,
     <<PatternRow("2026-11-03", "Coop", 4520, "Lebensmittel", FALSE),
       PatternRow("2026-11-03", "Zalando", 8950, "Shopping", TRUE)>>,
     <<PatternRow("2026-11-03", "Coop", 4520, "Lebensmittel", FALSE),
       PatternRow("2026-11-05", "Restaurant Adler", -6000, "Gastronomie", TRUE),
       PatternRow("2026-11-03", "Zalando", 8950, "Shopping", TRUE)>>,
     <<PatternRow("2026-08-03", "Kiosk", 1290, "Sonstiges", FALSE),
       PatternRow("2026-11-02", "Kiosk", 1350, "Sonstiges", FALSE),
       PatternRow("2026-11-03", "Coop", 4520, "Lebensmittel", FALSE),
       PatternRow("2026-11-05", "Coop", 4520, "Lebensmittel", FALSE)>>}

\* a purchase of another user
OthersRows == <<[PatternRow("2026-11-03", "Zalando", 8950, "Shopping", TRUE) EXCEPT !.userId = "u2"]>>

BudgetTables ==
    {WithIds(s \o OthersRows \o e) : s \in BudgetSalaries, e \in BudgetExpenses}

\* the declared incomes: none, 5000 CHF
BaselineIncomes == {0, 500000}

\* query parameters of GET /api/analysis, "" being a parameter not sent
AnalysisScopes == {"", "year"}
AnalysisModes == {"", "manual"}
AnalysisRanges ==
    {<<"", "">>, <<"2026-08-01", "2026-11-30">>, <<"2026-11-30", "2026-08-01">>,
     <<"2025-12-31", "2027-03-31">>, <<"", "2026-08-31">>}

\* bodies of PATCH /api/user: 3000 CHF, 1200 CHF, 0, a negative amount, a text, none
BudgetBodies ==
    {[monthlyBudget |-> v] :
        v \in {JNum(300000), JNum(120000), JNum(0), JNum(-60000), JStr("viel"), JUndef}}

GetAnalysis ==
    \E token \in Tokens, scope \in AnalysisScopes, budgetMode \in AnalysisModes,
       range \in AnalysisRanges :
        \E response \in {AnalysisRoute(token, scope, budgetMode, range[1], range[2])} :
            /\ reply' = [op |-> "GET /api/analysis", userId |-> token, scope |-> scope,
                         budgetMode |-> budgetMode, startDate |-> range[1],
                         endDate |-> range[2]] @@ response
            /\ UNCHANGED <<today, apiKey, users, goals, transactions>>

PatchUser ==
    \E token \in Tokens, body \in BudgetBodies :
        \E response \in {UserRoute(token, body)} :
            /\ users' = response.users
            /\ reply' = [op |-> "PATCH /api/user", userId |-> token,
                         monthlyBudget |-> body.monthlyBudget, status |-> response.status]
            /\ UNCHANGED <<today, apiKey, goals, transactions>>

InitBudget ==
    /\ today \in {"2026-01-15", "2026-11-06"}
    /\ apiKey = TRUE
    /\ users \in {<<[id |-> "u1", name |-> "Demo", monthlyNetIncome |-> income]>> :
                     income \in BaselineIncomes}
    /\ goals = <<>>
    /\ transactions \in BudgetTables
    /\ reply = NoReply

NextBudget ==
    \/ GetAnalysis
    \/ PatchUser

SpecBudget == InitBudget /\ [][NextBudget]_vars

\* the request was an analysis that the route answered
AnalysisAnswered == reply.op = "GET /api/analysis" /\ reply.status = 200

RequesterRows == SelectSeq(transactions, LAMBDA t : t.userId = reply.userId)

RequesterIncome == users[RowOf(users, reply.userId)].monthlyNetIncome

RequestedTimeframe ==
    IF reply.startDate # "" /\ reply.endDate # "" THEN "custom"
    ELSE IF reply.scope = "year" THEN "year" ELSE "month"

\* the months of the requested period: the month number of the current month for
\* the year, the inclusive month difference (at least 1) for a range, else 1
RequestedMonths ==
    CASE RequestedTimeframe = "year" -> DateMonth(today)
      [] RequestedTimeframe = "custom" ->
             AtLeastOne(InclusiveMonths(reply.startDate, reply.endDate))
      [] OTHER -> 1

\* the day lies in the requested period
InPeriod(date) ==
    CASE RequestedTimeframe = "year" -> DateYear(date) = DateYear(today)
      [] RequestedTimeframe = "custom" ->
             /\ DateParse(reply.startDate) <= DateParse(date)
             /\ DateParse(date) <= DateParse(reply.endDate)
      [] OTHER -> DateYear(date) = DateYear(today) /\ DateMonth(date) = DateMonth(today)

Ceiling == reply.budgetSummary.monthlyBudget

\* the ceiling is 0.6 x (n / d) x the months of the period, exactly
IsSixtyPercentOf(n, d) ==
    Ceiling.t = "number" /\ 5 * d * Ceiling.n = 3 * n * RequestedMonths

\* C13: in auto mode, for a user without any salary-tagged transaction, the
\* ceiling is the declared income x 0.6 x the months in scope, exactly, for the
\* timeframes month, year and custom
C13_BaselineCeiling ==
    (/\ AnalysisAnswered
     /\ reply.budgetMode # "manual"
     /\ \A i \in DOMAIN RequesterRows : ~isSalaryTransaction(RequesterRows[i]))
    => IsSixtyPercentOf(RequesterIncome, 1)

\* 5000 CHF declared, no salary, a range of 16 months: 48000 CHF
C13_Witness ==
    /\ AnalysisAnswered
    /\ reply.budgetMode # "manual"
    /\ \A i \in DOMAIN RequesterRows : ~isSalaryTransaction(RequesterRows[i])
    /\ RequesterRows # <<>>
    /\ RequesterIncome = 500000
    /\ reply.startDate = "2025-12-31" /\ reply.endDate = "2027-03-31"
    /\ Ceiling = JNum(4800000)

\* the salary-tagged transactions of the requested period
SalariesInPeriod ==
    SelectSeq(RequesterRows, LAMBDA t : isSalaryTransaction(t) /\ InPeriod(t.date))

\* months counted from year 0
MonthIndex(date) == 12 * DateYear(date) + DateMonth(date)

\* the end date's month, else the current month
ReferenceIndex == IF reply.endDate # "" THEN MonthIndex(reply.endDate) ELSE MonthIndex(today)

\* the salary-tagged transactions of the twelve months that end with the
\* reference month
TrailingSalaries ==
    SelectSeq(RequesterRows,
              LAMBDA t : /\ isSalaryTransaction(t)
                         /\ MonthIndex(t.date) \in (ReferenceIndex - 11)..ReferenceIndex)

\* the months of those twelve that have a salary
TrailingMonths ==
    Cardinality({MonthIndex(TrailingSalaries[i].date) : i \in DOMAIN TrailingSalaries})

\* C14: in auto mode the ceiling is the sum of the salaries in the period when
\* that is positive; else 0.6 x the average monthly salary of the twelve months
\* ending with the reference month x the months in scope when that average is
\* positive; else the declared income x 0.6 x the months in scope. In manual
\* mode it is the flexible amount (60% of the stored income, which the budget
\* dialog sets to the amount entered / 0.6) x the months in scope
C14_CeilingPrecedence ==
    /\ AnalysisAnswered
       => IF reply.budgetMode = "manual" THEN IsSixtyPercentOf(RequesterIncome, 1)
          ELSE IF SumAbs(SalariesInPeriod) > 0 THEN Ceiling = JNum(SumAbs(SalariesInPeriod))
          ELSE IF SumAbs(TrailingSalaries) > 0
          THEN IsSixtyPercentOf(SumAbs(TrailingSalaries), TrailingMonths)
          ELSE IsSixtyPercentOf(RequesterIncome, 1)
    /\ (reply.op = "PATCH /api/user" /\ reply.status = 200)
       => 3 * RequesterIncome = 5 * AtLeastZero(Number(reply.monthlyBudget).n)

\* salaries in January and November, the year requested in November: the
\* salaries of the year are the ceiling, not 60% of their average
C14_Witness ==
    /\ AnalysisAnswered
    /\ reply.budgetMode # "manual"
    /\ RequestedTimeframe = "year"
    /\ today = "2026-11-06"
    /\ SumAbs(TrailingSalaries) = 1020000
    /\ Ceiling = JNum(1020000)

\* the expense-like transactions of the requested period
ExpensesInPeriod ==
    SelectSeq(RequesterRows, LAMBDA t : InPeriod(t.date) /\ ~isIncomeTransaction(t))

Summary == reply.budgetSummary

\* C16: used is the sum of the absolute amounts of the expense-like transactions
\* in scope, and byCategory holds each category of those expenses once, with the
\* sum of its amounts, the larger amount first
C16_UsedAndByCategory ==
    AnalysisAnswered
    => /\ Summary.usedBudget = SumAbs(ExpensesInPeriod)
       /\ {Summary.byCategory[i].category : i \in DOMAIN Summary.byCategory}
          = {ExpensesInPeriod[i].category : i \in DOMAIN ExpensesInPeriod}
       /\ \A i, j \in DOMAIN Summary.byCategory :
              /\ i # j => Summary.byCategory[i].category # Summary.byCategory[j].category
              /\ i < j => Summary.byCategory[i].amount >= Summary.byCategory[j].amount
       /\ \A i \in DOMAIN Summary.byCategory :
              Summary.byCategory[i].amount
              = SumAmounts(SelectSeq(ExpensesInPeriod,
                    LAMBDA t : t.category = Summary.byCategory[i].category))

\* two salaries, another user's purchase and a purchase in August are left out
\* of the month: three categories, the largest first
C16_Witness ==
    /\ AnalysisAnswered
    /\ RequestedTimeframe = "month"
    /\ Len(SalariesInPeriod) = 1
    /\ \E i \in DOMAIN transactions : transactions[i].userId # reply.userId
    /\ Summary.usedBudget = 19470
    /\ Summary.byCategory = <<[category |-> "Shopping", amount |-> 8950],
                              [category |-> "Lebensmittel", amount |-> 4520],
                              [category |-> "Gastronomie", amount |-> -6000]>>

-----------------------------------------------------------------------------
(* Specification SpecOrder: messages that several detectors answer to *)

ChatAboutSeveral == ChatOf({"u1"}, MixedUtterances, {"de"}, {RemoteAnswers(NullContent)})

NextOrder == ChatAboutSeveral

SpecOrder == InitGoals /\ [][NextOrder]_vars

\* the intents the detectors find in a message, in the order the route tests them
IntentsFound(a, list) ==
    <<detectSavingsDepositIntent(a, list).found, detectGoalRuleAddIntent(a, list).found,
      detectGoalRuleRemoveIntent(a, list).found, DetectByKeywords(a, list, "deletion").found,
      DetectByKeywords(a, list, "complete").found, DetectByKeywords(a, list, "update").found,
      detectSavingsGoalIntent(a), TRUE>>

HandlerOrder ==
    <<"deposit", "rule-add", "rule-remove", "delete", "complete", "update", "create", "general">>

\* the handler of the first intent found
FirstHandler(found) == HandlerOrder[FirstOf({k \in DOMAIN found : found[k]})]

\* how many of the seven detectors answer to the message
DetectorsAnswering(found) == Cardinality({k \in 1..7 : found[k]})

\* the goals differ from the earlier ones in goal i alone, which keeps its id and owner
OnlyGoalChanged(i) ==
    /\ DOMAIN goals' = DOMAIN goals
    /\ \A j \in DOMAIN goals : j # i => goals'[j] = goals[j]
    /\ goals'[i].id = goals[i].id
    /\ goals'[i].userId = goals[i].userId

\* what the handler of one branch, and no other, does to the goals
EffectOf(branch, a) ==
    CASE branch = "deposit" ->
             \E i \in DOMAIN goals :
                 goals' = [goals EXCEPT ![i].currentSavedAmount = @ + a.amount]
      [] branch = "rule-add" ->
             \E i \in DOMAIN goals : goals' = [goals EXCEPT ![i].rules = Append(@, a.ruleText)]
      [] branch = "rule-remove" ->
             \E i \in DOMAIN goals :
                 /\ OnlyGoalChanged(i)
                 /\ goals' = [goals EXCEPT ![i].rules = goals'[i].rules]
                 /\ Len(goals'[i].rules) <= Len(goals[i].rules)
      [] branch = "delete" ->
             \E i \in DOMAIN goals :
                 goals' = SubSeq(goals, 1, i - 1) \o SubSeq(goals, i + 1, Len(goals))
      [] branch = "complete" ->
             \E i \in DOMAIN goals :
                 goals' = [goals EXCEPT ![i].currentSavedAmount = goals[i].targetAmount]
      [] branch = "update" ->
             \E i \in DOMAIN goals :
                 /\ OnlyGoalChanged(i)
                 /\ goals'[i].currentSavedAmount = goals[i].currentSavedAmount
      [] branch = "create" ->
             /\ Len(goals') = Len(goals) + 1
             /\ SubSeq(goals', 1, Len(goals)) = goals
             /\ goals'[Len(goals')].currentSavedAmount = 0
      [] OTHER -> goals' = goals

\* C17: the chat route runs exactly one handler, that of the first intent
\* found in the order deposit, rule-add, rule-remove, delete, complete,
\* update, create-goal, general; where a message answers to several detectors
\* the goals change as the earliest one's handler changes them and in no
\* other way.
C17_FirstIntentAlone ==
    [][reply'.op = "POST /api/chat"
       => \E found \in {IntentsFound(Analysis(reply'.message), GoalsOf(goals, reply'.userId))} :
              /\ reply'.branch = FirstHandler(found)
              /\ EffectOf(reply'.branch, Analysis(reply'.message))]_vars

\* a message with the words of a deposit and of a deletion has been booked as
\* a deposit of 200 francs, and the goal is still there
C17_Witness ==
    /\ reply.op = "POST /api/chat"
    /\ reply.message = "Ich habe 200 CHF für Thailand trip gespart, bitte löschen"
    /\ Analysis(reply.message).has.deposit
    /\ Analysis(reply.message).has.deletion
    /\ reply.branch = "deposit"
    /\ \E i \in DOMAIN goals :
           goals[i].title = "Thailand trip" /\ goals[i].currentSavedAmount = 20000

-----------------------------------------------------------------------------
(* Specification SpecTarget: the goal a message is about, among the goals  *)
(* the user has                                                            *)

\* a goal as the create branch of the chat route stores it
StoredGoal(id, userId, title) ==
    LET goalOutput == savingsGoalAgent(title,
                          RemoteAnswers(Json([GoalObject EXCEPT !.goalTitle = JStr(title)])))
        built == buildBilingualRules(goalOutput, "de", NoGoal, RemoteAnswers(NullContent))
    IN [id |-> id, userId |-> userId, title |-> built.goalTitle,
        targetAmount |-> goalOutput.targetAmount, targetDate |-> goalOutput.targetDate,
        currentSavedAmount |-> 0, rules |-> built.rules]

TargetTables ==
    {<<StoredGoal("g1", "u1", "Thailand trip"), StoredGoal("g2", "u1", "Zürich Reise")>>,
     <<StoredGoal("g1", "u1", "Zürich Reise"), StoredGoal("g2", "u1", "Thailand trip")>>,
     <<StoredGoal("g1", "u1", "Zürich Reise"), StoredGoal("g2", "u2", "Thailand trip")>>}

InitTarget ==
    /\ today = "2026-11-06"
    /\ apiKey = TRUE
    /\ users = <<>>
    /\ goals \in TargetTables
    /\ transactions = <<>>
    /\ reply = NoReply

ChatAboutTargets == ChatOf({"u1"}, TargetUtterances, {"de"}, {RemoteAnswers(NullContent)})

NextTarget == ChatAboutTargets

SpecTarget == InitTarget /\ [][NextTarget]_vars

\* the goals of the list whose normalized title the normalized message holds
TitlesHeld(message, list) ==
    {i \in DOMAIN list : Includes(normalize(message), normalize(list[i].title))}

\* the row of the goals table that is goal k of the list the route has read
RowInTable(list, k) == CHOOSE i \in DOMAIN goals : goals[i].id = list[k].id

\* the step changes the goals as the handler of the branch changes row i
HandledAt(branch, a, i) ==
    CASE branch = "deposit" ->
             goals' = [goals EXCEPT ![i].currentSavedAmount = @ + a.amount]
      [] branch = "rule-add" -> goals' = [goals EXCEPT ![i].rules = Append(@, a.ruleText)]
      [] branch = "rule-remove" ->
             /\ OnlyGoalChanged(i)
             /\ goals' = [goals EXCEPT ![i].rules = goals'[i].rules]
      [] branch = "delete" ->
             goals' = SubSeq(goals, 1, i - 1) \o SubSeq(goals, i + 1, Len(goals))
      [] branch = "complete" ->
             goals' = [goals EXCEPT ![i].currentSavedAmount = goals[i].targetAmount]
      [] OTHER -> OnlyGoalChanged(i)

GoalTargeting == {"deposit", "rule-add", "rule-remove", "delete", "complete", "update"}

\* the branch works on the first goal whose title the message holds and, if
\* none is held, on the first goal of the list
TargetsFirstHeldOrFirst(branch, message, list) ==
    /\ list # <<>>
    /\ HandledAt(branch, Analysis(message),
                 RowInTable(list, IF TitlesHeld(message, list) # {}
                                  THEN FirstOf(TitlesHeld(message, list)) ELSE 1))

\* a message with a deposit word and an amount
DepositWorded(message) == Analysis(message).has.deposit /\ Analysis(message).amount > 0

\* C18 as stated: every goal-targeting intent, the deposit among them, works
\* on the first goal whose normalized title the normalized message holds, and
\* on the first goal of a non-empty list when no title is held.
C18_EveryIntentDefaultsToFirstGoal ==
    [][reply'.op = "POST /api/chat"
       => \E list \in {GoalsOf(goals, reply'.userId)} :
              /\ reply'.branch \in GoalTargeting
                     => TargetsFirstHeldOrFirst(reply'.branch, reply'.message, list)
              /\ (DepositWorded(reply'.message) /\ list # <<>>)
                     => reply'.branch = "deposit"]_vars

\* C18, amended: rule-add, rule-remove, delete, complete and update work on
\* the first goal whose normalized title the normalized message holds, and on
\* the first goal of a non-empty list when no title is held; a deposit works
\* on the first goal whose title is held and is not booked at all when no
\* title is held.  Titles match whatever their case and with ä, ö, ü, ß
\* written as ae, oe, ue, ss.
C18_TargetIsFirstHeldGoal ==
    [][reply'.op = "POST /api/chat"
       => \E list \in {GoalsOf(goals, reply'.userId)} :
              /\ reply'.branch \in GoalTargeting
                     => TargetsFirstHeldOrFirst(reply'.branch, reply'.message, list)
              /\ reply'.branch = "deposit" => TitlesHeld(reply'.message, list) # {}
              /\ (DepositWorded(reply'.message) /\ TitlesHeld(reply'.message, list) # {})
                     => reply'.branch = "deposit"
              /\ (/\ reply'.message = "Loesche ZUERICH REISE"
                  /\ \E k \in DOMAIN list : list[k].title = "Zürich Reise")
                     => /\ reply'.branch = "delete"
                        /\ \E i \in DOMAIN goals :
                               /\ goals[i].title = "Zürich Reise"
                               /\ goals[i].userId = reply'.userId
                               /\ HandledAt("delete", Analysis(reply'.message), i)]_vars

\* the goal "Zürich Reise" has been deleted on the message that writes it in
\* capitals and with UE, and the user's other goal is still there
C18_Witness ==
    /\ reply.op = "POST /api/chat"
    /\ reply.message = "Loesche ZUERICH REISE"
    /\ reply.branch = "delete"
    /\ \E i \in DOMAIN goals : goals[i].userId = "u1" /\ goals[i].title = "Thailand trip"
    /\ \A i \in DOMAIN goals : goals[i].title # "Zürich Reise"

-----------------------------------------------------------------------------
(* The translation helpers, lib/translate, and the calls of callOpenAI and *)
(* callOpenAIChat that one request makes                                   *)

BatchTranslatePrompt(targetLang) ==
    "You are a translator. Translate user text into " \o targetLang
        \o ". Return only the translation."

\* translated?.trim() || text
TrimmedOr(translated, text) ==
    IF translated.kind = "text" /\ trim(translated.s) # "" THEN trim(translated.s) ELSE text

\* one call for every text of the list
translateTexts(texts, targetLang, remote) ==
    [i \in DOMAIN texts |->
        TrimmedOr(callOpenAI(BatchTranslatePrompt(targetLang), texts[i], remote), texts[i])]

\* no call for the empty text, one for any other
translateToEnglish(text, remote) ==
    IF text = "" THEN text ELSE TrimmedOr(callOpenAI(TranslatePrompt, text, remote), text)

\* the calls translateTexts makes
CallsOfTranslateTexts(texts) == Len(texts)

\* the calls rules.map((r) => translateToEnglish(r)) makes
CallsOfTranslateToEnglish(texts) == Len(SelectSeq(texts, LAMBDA t : t # ""))

\* the calls of buildBilingualRules: translateTexts answers with a list as long
\* as the one it is given, so that with lang 'en' rulesEn is set by the batch
\* and the second translation is skipped
CallsOfBuildBilingualRules(baseRules, lang) ==
    IF lang = "en" THEN CallsOfTranslateTexts(<<"title">> \o baseRules)
    ELSE CallsOfTranslateToEnglish(<<"Jeden Monat">> \o baseRules)

\* the calls of one request to the chat route that takes the branch
ChatCompletions(branch, lang, goalOutput, a) ==
    CASE branch = "rule-add" -> CallsOfTranslateToEnglish(<<a.ruleText>>)
      [] branch \in {"update", "create"} ->
             1 + CallsOfBuildBilingualRules(
                     SelectSeq(goalOutput.rules,
                         LAMBDA r : ~Includes(toLowerCase(r), "aufs sparkonto")), lang)
      [] branch = "general" -> 1
      [] OTHER -> 0

\* the calls of one request to POST /api/transactions: that of
\* impulseClassificationAgent, once the body has passed the checks
ClassifyCompletions(token, body) ==
    IF Authorized(token) /\ Truthy(body.merchant) /\ body.amount # JUndef
       /\ body.merchant.t = "string"
    THEN 1 ELSE 0

-----------------------------------------------------------------------------
(* Specification SpecCalls: the requests with the number of calls each has *)
(* made when it answers                                                    *)

CallsUtterances ==
    {"Ich möchte 400 CHF für Ferien sparen",
     "Neue Regel für Thailand trip: Kein Take-away",
     "Bitte Thailand trip anpassen: 400 CHF bis März 2027",
     "Lösche das Sparziel Thailand trip",
     "Wie viel habe ich ausgegeben?"}

CallsBodies == {body \in PostBodies : body.amount # JStr("viel")}

ChatCounted ==
    \E latestUserMessage \in CallsUtterances, lang \in {"de", "en"}, remote \in ChatRemotes,
       translator \in {RemoteFails, RemoteAnswers(Text("Trip to Thailand"))} :
        \E response \in {ChatRoute("u1", lang, latestUserMessage, remote, translator)} :
            /\ WithinBounds(response.goals)
            /\ goals' = response.goals
            /\ reply' = [op |-> "POST /api/chat", status |-> response.status,
                         userId |-> "u1", message |-> latestUserMessage, lang |-> lang,
                         branch |-> response.branch,
                         completions |->
                             ChatCompletions(response.branch, lang,
                                 savingsGoalAgent(latestUserMessage, remote),
                                 Analysis(latestUserMessage))]
            /\ UNCHANGED <<today, apiKey, users, transactions>>

ClassifyCounted ==
    /\ transactions = <<>>
    /\ \E token \in TxTokens, body \in CallsBodies :
           \E response \in {PostTransactionsRoute(token, body, RemoteFails)} :
               /\ transactions' = response.transactions
               /\ reply' = [op |-> "POST /api/transactions", status |-> response.status,
                            completions |-> ClassifyCompletions(token, body)]
               /\ UNCHANGED <<today, apiKey, users, goals>>

AnalysisCounted ==
    \E token \in TxTokens, scope \in AnalysisScopes :
        \E response \in {AnalysisRoute(token, scope, "", "", "")} :
            /\ reply' = [op |-> "GET /api/analysis", status |-> response.status,
                         scope |-> scope, completions |-> 0]
            /\ UNCHANGED <<today, apiKey, users, goals, transactions>>

InitCalls ==
    /\ today = "2026-11-06"
    /\ apiKey = TRUE
    /\ users = <<[id |-> "u1", name |-> "Demo", monthlyNetIncome |-> 500000]>>
    /\ goals = <<>>
    /\ transactions = <<>>
    /\ reply = NoReply

NextCalls ==
    \/ ChatCounted
    \/ ClassifyCounted
    \/ AnalysisCounted

SpecCalls == InitCalls /\ [][NextCalls]_vars

\* C19: a request (the classification of one transaction, one analysis, one
\* chat message, the messages that create or update a goal among them) has
\* made at most one call to the completion capability when it answers.
C19_AtMostOneCompletion ==
    reply.op \in {"POST /api/chat", "POST /api/transactions", "GET /api/analysis"}
        => reply.completions <= 1

-----------------------------------------------------------------------------
(* Specification SpecTranslate: the translation helpers applied to texts,  *)
(* and the creation of a goal by chat, with and without the completion     *)
(* service                                                                 *)

TranslateTexts == {"Impulskäufe vermeiden", "Kein Take-away", "Thailand trip", ""}

TranslateLists ==
    {<<>>} \cup {<<a>> : a \in TranslateTexts}
           \cup {<<a, b>> : a \in TranslateTexts, b \in TranslateTexts}

TranslateRemotes ==
    {RemoteFails, RemoteAnswers(NullContent), RemoteAnswers(Text("Trip to Thailand"))}

TranslateBatch ==
    \E texts \in TranslateLists, targetLang \in {"EN", "DE"}, remote \in TranslateRemotes :
        /\ reply' = [op |-> "translateTexts", texts |-> texts, remote |-> remote,
                     result |-> translateTexts(texts, targetLang, remote)]
        /\ UNCHANGED <<today, apiKey, users, goals, transactions>>

TranslateOne ==
    \E text \in TranslateTexts, remote \in TranslateRemotes :
        /\ reply' = [op |-> "translateToEnglish", text |-> text, remote |-> remote,
                     result |-> translateToEnglish(text, remote)]
        /\ UNCHANGED <<today, apiKey, users, goals, transactions>>

CreateByChat ==
    \E lang \in {"de", "en"}, remote \in ChatRemotes, translator \in TranslateRemotes :
        \E response \in {ChatRoute("u1", lang, "Ich möchte 400 CHF für Ferien sparen",
                                   remote, translator)} :
            /\ WithinBounds(response.goals)
            /\ goals' = response.goals
            /\ reply' = [op |-> "POST /api/chat", status |-> response.status,
                         userId |-> "u1", message |-> "Ich möchte 400 CHF für Ferien sparen",
                         lang |-> lang, branch |-> response.branch,
                         goalOutput |-> savingsGoalAgent("Ich möchte 400 CHF für Ferien sparen",
                                                         remote),
                         remote |-> translator]
            /\ UNCHANGED <<today, apiKey, users, transactions>>

InitTranslate ==
    /\ today = "2026-11-06"
    /\ apiKey \in BOOLEAN
    /\ users = <<>>
    /\ goals = <<>>
    /\ transactions = <<>>
    /\ reply = NoReply

NextTranslate ==
    \/ TranslateBatch
    \/ TranslateOne
    \/ CreateByChat

SpecTranslate == InitTranslate /\ [][NextTranslate]_vars

\* the completion service is not there for the call: no key, or the request fails
ServiceDown(remote) == ~apiKey \/ ~remote.ok

\* C20: when the completion service fails or is unavailable during
\* translation, translateTexts returns a list as long as its input with every
\* text as it was, translateToEnglish returns its input as it was, and the
\* creation of a goal completes with the title and the rules in the source
\* language.
C20_TranslationFallsBackToSource ==
    /\ (reply.op = "translateTexts" /\ ServiceDown(reply.remote))
           => reply.result = reply.texts
    /\ (reply.op = "translateToEnglish" /\ ServiceDown(reply.remote))
           => reply.result = reply.text
    /\ (reply.op = "POST /api/chat" /\ ServiceDown(reply.remote))
           => /\ reply.branch = "create"
              /\ goals # <<>>
              /\ goals[Len(goals)].title = reply.goalOutput.goalTitle
              /\ \A i \in 2..Len(goals[Len(goals)].rules) :
                     \E k \in DOMAIN reply.goalOutput.rules :
                         goals[Len(goals)].rules[i] = reply.goalOutput.rules[k]

\* with the service down, translateTexts answers with a list as long as its input
BatchKeepsLength ==
    (reply.op = "translateTexts" /\ ServiceDown(reply.remote))
        => Len(reply.result) = Len(reply.texts)

-----------------------------------------------------------------------------
(* Specification SpecSubmit: the submission of one transaction, by POST    *)
(* /api/transactions and as one row of a file sent to                      *)
(* /api/transactions/bulk                                                  *)

\* what parseCsv makes of the cells of one row: the merchant is a text, the
\* amount undefined for an empty cell and Number(cell) for any other
BulkRows ==
    { [merchant |-> m, amount |-> a, date |-> JUndef, rawCategory |-> JUndef,
       justification |-> JUndef] :
        m \in {JStr("Coop"), JStr("")}, a \in {JNum(8950), JNaN, JUndef} }

\* one pass of the loop of the bulk route over a row; what createTransaction
\* throws is caught and listed with the errors
BulkRowRoute(row, remote) ==
    IF ~Truthy(row.merchant) \/ row.amount = JUndef
    THEN [failed |-> TRUE, classified |-> 0, transactions |-> transactions]
    ELSE LET saved == createTransaction(
                          Combined(dataExtractionAgent(row, DemoUser),
                                   impulseClassificationAgent(
                                       dataExtractionAgent(row, DemoUser), remote).verdict))
         IN [failed |-> ~saved.ok, classified |-> 1, transactions |-> saved.table]

Submit ==
    /\ Len(transactions) < MaxTransactions
    /\ \E token \in TxTokens, body \in PostBodies, remote \in TxRemotes :
           \E response \in {PostTransactionsRoute(token, body, remote)} :
               /\ transactions' = response.transactions
               /\ goals' = response.goals
               /\ reply' = [op |-> "POST /api/transactions", body |-> body,
                            failed |-> response.status >= 400,
                            classified |-> ClassifyCompletions(token, body)]
               /\ UNCHANGED <<today, apiKey, users>>

SubmitBulkRow ==
    /\ Len(transactions) < MaxTransactions
    /\ \E row \in BulkRows, remote \in TxRemotes :
           \E response \in {BulkRowRoute(row, remote)} :
               /\ transactions' = response.transactions
               /\ reply' = [op |-> "POST /api/transactions/bulk", body |-> row,
                            failed |-> response.failed, classified |-> response.classified]
               /\ UNCHANGED <<today, apiKey, users, goals>>

NextSubmit ==
    \/ Submit
    \/ SubmitBulkRow

SpecSubmit == InitTx /\ [][NextSubmit]_vars

\* the merchant or the amount is missing, or the amount is no number
InvalidSubmission(body) ==
    \/ body.merchant \in {JUndef, JStr("")}
    \/ body.amount = JUndef
    \/ Number(body.amount) = JNaN

SubmissionStep ==
    reply'.op \in {"POST /api/transactions", "POST /api/transactions/bulk"}

\* C21: a submission with a missing merchant, a missing amount or an amount
\* that is no number is rejected with an error before the classification is
\* called, and the stored transactions are the same after it as before.
C21_InvalidRejectedBeforeClassification ==
    [][(SubmissionStep /\ InvalidSubmission(reply'.body))
       => /\ reply'.failed
          /\ reply'.classified = 0
          /\ transactions' = transactions]_vars

\* an invalid submission fails and stores nothing, classified or not
InvalidNeverStored ==
    [][(SubmissionStep /\ InvalidSubmission(reply'.body))
       => reply'.failed /\ transactions' = transactions]_vars

-----------------------------------------------------------------------------
(* Specification SpecFallback: fallbackClassification applied to merchants *)
(* that hold the keywords of no rule, of one and of several                *)

FallbackMerchants ==
    {"Kiosk", "Coop", "Coop Restaurant", "Restaurant Adler", "Zalando Shopping",
     "SBB Restaurant", "Bar Zahlungseingang", "Hotel Bar"}

FallbackAmounts == {JNum(4520), JNum(6000), JNum(8950), JNaN}

FallbackClassify ==
    /\ \E merchant \in FallbackMerchants, amount \in FallbackAmounts :
           \E transaction \in {[merchant |-> merchant, amount |-> amount,
                                rawCategory |-> "", justification |-> ""]} :
               reply' = [op |-> "fallbackClassification", transaction |-> transaction,
                         result |-> fallbackClassification(transaction)]
    /\ UNCHANGED <<today, apiKey, users, goals, transactions>>

NextFallback == FallbackClassify

SpecFallback == Init /\ [][NextFallback]_vars

\* the keywords of rule r that the lower-cased merchant holds
KeywordsHeld(r, merchant) == {kw \in FallbackRules[r].kws : Includes(merchant, kw)}

\* the rules that hold a keyword of the merchant than which the merchant holds none longer
LongestMatchRules(merchant) ==
    {r \in DOMAIN FallbackRules :
        \E kw \in KeywordsHeld(r, merchant) :
            \A q \in DOMAIN FallbackRules :
                \A other \in KeywordsHeld(q, merchant) : Len(other) <= Len(kw)}

\* the verdict is that of rule r for the amount
VerdictOfRule(result, r, amount) ==
    /\ result.category = JStr(FallbackRules[r].category)
    /\ result.isImpulse =
           CASE FallbackRules[r].byAmount = "gastronomie" -> NumGt(amount, GastroImpulseOver)
             [] FallbackRules[r].byAmount = "shopping" -> NumGt(amount, ShoppingImpulseOver)
             [] OTHER -> FALSE
    /\ result.decisionLabel =
           CASE FallbackRules[r].byAmount = "gastronomie" ->
                    IF NumGt(amount, GastroUnnecessaryOver) THEN "unnecessary" ELSE "useful"
             [] FallbackRules[r].byAmount = "shopping" ->
                    IF NumGt(amount, ShoppingImpulseOver) THEN "unnecessary" ELSE "useful"
             [] OTHER -> "useful"

\* the verdict where the merchant holds no keyword
DefaultVerdict(result) ==
    /\ result.category = JStr("Allgemeines")
    /\ ~result.isImpulse
    /\ result.decisionLabel = "useful"

\* C22: the fallback classifier is longest-match-wins: where the merchant
\* holds keywords of several rules, the rule with the longest keyword held
\* gives category, isImpulse and decisionLabel; where it holds none, the
\* category is the general one, isImpulse is false and decisionLabel 'useful'.
C22_LongestKeywordWins ==
    reply.op = "fallbackClassification"
        => \E merchant \in {toLowerCase(reply.transaction.merchant)} :
               IF LongestMatchRules(merchant) = {} THEN DefaultVerdict(reply.result)
               ELSE \E r \in LongestMatchRules(merchant) :
                        VerdictOfRule(reply.result, r, reply.transaction.amount)

\* the verdict is that of the first rule of the table of which the merchant
\* holds a keyword, and the default one where it holds none
FirstRuleWins ==
    reply.op = "fallbackClassification"
        => \E merchant \in {toLowerCase(reply.transaction.merchant)} :
               \E hits \in {{r \in DOMAIN FallbackRules : KeywordsHeld(r, merchant) # {}}} :
                   IF hits = {} THEN DefaultVerdict(reply.result)
                   ELSE \E r \in hits :
                            /\ \A q \in hits : r <= q
                            /\ VerdictOfRule(reply.result, r, reply.transaction.amount)

-----------------------------------------------------------------------------
(* Specification SpecFewShots: one call of getKaggleFewShots, lib/kaggleData, *)
(* with the loop that fills the examples by random draws                   *)

MaxCount == 7

\* the categories of the sixteen examples of the seed set, in its order; an
\* example is the object at its position
KaggleData ==
    <<"Lebensmittel", "Lebensmittel", "Shopping", "Shopping", "Shopping",
      "Food Delivery", "Food Delivery", "Food Delivery", "Transport", "Transport",
      "Transport", "Unterhaltung", "Unterhaltung", "Unterhaltung", "Gesundheit",
      "Gesundheit">>

FewShotCategories ==
    <<"Lebensmittel", "Shopping", "Food Delivery", "Transport", "Unterhaltung">>

\* data.find((t) => t.category === category), 0 for undefined
FindByCategory(data, category) == FirstOf({i \in DOMAIN data : data[i].category = category})

\* the loop over the categories, from category k on
RECURSIVE OnePerCategory(_, _, _, _)
OnePerCategory(data, count, examples, k) ==
    IF k > Len(FewShotCategories) THEN examples
    ELSE OnePerCategory(data, count,
             IF FindByCategory(data, FewShotCategories[k]) # 0 /\ Len(examples) < count
             THEN Append(examples, FindByCategory(data, FewShotCategories[k]))
             ELSE examples,
             k + 1)

\* a draw that takes any candidate, chosen before or not
AnyCandidate(examples, candidate) == TRUE

\* !examples.includes(candidate)
NotIncluded(examples, candidate) == \A k \in DOMAIN examples : examples[k] # candidate

\* examples.length < count && examples.length < data.length
Filling(call) == Len(call.examples) < call.count /\ Len(call.examples) < Len(call.data)

\* the call up to the loop that fills the remaining places
CallFewShots ==
    /\ reply.op = "getKaggleFewShots" => reply.pc = "done"
    /\ \E count \in 0..MaxCount :
           \E data \in {[i \in DOMAIN KaggleData |-> [category |-> KaggleData[i]]]} :
               reply' = [op |-> "getKaggleFewShots", pc |-> "fill", count |-> count,
                         data |-> data, randomIndex |-> 0,
                         examples |-> OnePerCategory(data, count, <<>>, 1)]
    /\ UNCHANGED <<today, apiKey, users, goals, transactions>>

\* one pass of the loop with a candidate that is pushed
DrawFresh ==
    /\ reply.op = "getKaggleFewShots"
    /\ reply.pc = "fill"
    /\ Filling(reply)
    /\ \E randomIndex \in DOMAIN reply.data :
           /\ NotIncluded(reply.examples, randomIndex)
           /\ reply' = [reply EXCEPT !.randomIndex = randomIndex,
                                     !.examples = Append(@, randomIndex)]
    /\ UNCHANGED <<today, apiKey, users, goals, transactions>>

\* one pass of the loop with a candidate the examples include
DrawChosen ==
    /\ reply.op = "getKaggleFewShots"
    /\ reply.pc = "fill"
    /\ Filling(reply)
    /\ \E randomIndex \in DOMAIN reply.data :
           /\ ~NotIncluded(reply.examples, randomIndex)
           /\ reply' = [reply EXCEPT !.randomIndex = randomIndex]
    /\ UNCHANGED <<today, apiKey, users, goals, transactions>>

\* return examples.slice(0, count)
ReturnExamples ==
    /\ reply.op = "getKaggleFewShots"
    /\ reply.pc = "fill"
    /\ ~Filling(reply)
    /\ reply' = [reply EXCEPT !.pc = "done",
                              !.examples = SubSeq(@, 1, AtMost(Len(@), reply.count))]
    /\ UNCHANGED <<today, apiKey, users, goals, transactions>>

NextFewShots ==
    \/ CallFewShots
    \/ DrawFresh
    \/ DrawChosen
    \/ ReturnExamples

\* Math.random() gives every index again and again, so that a loop that is
\* still filling comes to a candidate it does not include; the call runs on
SpecFewShots ==
    /\ InitGoals
    /\ [][NextFewShots]_vars
    /\ WF_vars(DrawFresh)
    /\ WF_vars(ReturnExamples)

\* the first example of each category the seed set has, in the order of the
\* categories, as far as count allows
LeadingExamples(data, count) ==
    LET firsts == SelectSeq([k \in DOMAIN FewShotCategories |->
                                FirstOf({i \in DOMAIN data :
                                            data[i].category = FewShotCategories[k]})],
                            LAMBDA i : i # 0)
    IN SubSeq(firsts, 1, AtMost(Len(firsts), count))

FewShotsReturned == reply.op = "getKaggleFewShots" /\ reply.pc = "done"

ReturnedAsClaimed ==
    FewShotsReturned
    => /\ Len(reply.examples) = AtMost(reply.count, Len(reply.data))
       /\ \A j, k \in DOMAIN reply.examples : j # k => reply.examples[j] # reply.examples[k]
       /\ \A k \in DOMAIN reply.examples : reply.examples[k] \in DOMAIN reply.data
       /\ SubSeq(reply.examples, 1, Len(LeadingExamples(reply.data, reply.count)))
              = LeadingExamples(reply.data, reply.count)
       /\ reply.data = [i \in DOMAIN KaggleData |-> [category |-> KaggleData[i]]]

-----------------------------------------------------------------------------
(* The goals of the other users *)

\* the step is a request of this kind that was sent with the token of a user
RequestBy(op, userId) == reply'.op = op /\ reply'.userId = userId

\* the rows of every other user, with all their fields, are the same after
OthersGoalsKept(userId) ==
    \A other \in Users \ {userId} : GoalsOf(goals', other) = GoalsOf(goals, other)

\* C27: a request to PATCH /api/goals, DELETE /api/goals or the chat route
\* that is authenticated as one user leaves the goals of every other user
\* as they were: none of them is changed, none is deleted
C27_OthersGoalsUntouched ==
    [][\A userId \in Users :
           (\/ RequestBy("PATCH /api/goals", userId)
            \/ RequestBy("DELETE /api/goals", userId)
            \/ RequestBy("POST /api/chat", userId))
           => OthersGoalsKept(userId)]_vars

\* deposits by PATCH /api/goals and the branches of the chat route look the
\* goal up among the goals of the sender
OwnGoalsByPatchAndChat ==
    [][\A userId \in Users :
           (RequestBy("PATCH /api/goals", userId) \/ RequestBy("POST /api/chat", userId))
           => OthersGoalsKept(userId)]_vars

-----------------------------------------------------------------------------
(* Specification SpecDeposits: deposit requests to PATCH /api/goals that   *)
(* are served at the same time. Every await of the handler is a point      *)
(* where another request may run: a request reads the user's goals, and    *)
(* writes its new amount in a later step                                   *)

MaxInFlight == 2

\* deposits of 25, 50 and 200 CHF
DepositAmounts == {2500, 5000, 20000}

\* the requests the server holds, and what the goal held when the first came
Deposits(initial, requests) == [op |-> "deposits", initial |-> initial, requests |-> requests]

Served(requests) == \A k \in DOMAIN requests : requests[k].pc = "done"

\* PATCH /api/goals up to its first await, lines 68-75: the body is valid
ReceiveDeposit ==
    /\ reply.op = "deposits"
    /\ Len(reply.requests) < MaxInFlight
    /\ \E amount \in DepositAmounts :
           reply' = [reply EXCEPT !.requests =
                        Append(@, [userId |-> "u1", goalId |-> "g1", amount |-> amount,
                                   pc |-> "read", newAmount |-> 0, status |-> 0])]
    /\ UNCHANGED <<today, apiKey, users, goals, transactions>>

\* lines 77-82: the goals are read, the goal is found among them, the new
\* amount is computed from what was read
ReadGoal ==
    /\ reply.op = "deposits"
    /\ \E k \in DOMAIN reply.requests :
           /\ reply.requests[k].pc = "read"
           /\ \E request \in {reply.requests[k]} :
              \E list \in {getSavingsGoals(request.userId)} :
                  reply' = [reply EXCEPT !.requests[k] =
                      IF FindGoal(list, request.goalId) = 0
                      THEN [request EXCEPT !.pc = "done", !.status = 404]
                      ELSE [request EXCEPT !.pc = "write",
                                !.newAmount = AtLeastZero(
                                    TargetGoal(list, request).currentSavedAmount
                                    + request.amount)]]
    /\ UNCHANGED <<today, apiKey, users, goals, transactions>>

\* lines 83-86: the new amount is written and the request is answered
WriteAmount ==
    /\ reply.op = "deposits"
    /\ \E k \in DOMAIN reply.requests :
           /\ reply.requests[k].pc = "write"
           /\ IF GoalExists(reply.requests[k].goalId)
              THEN /\ goals' = updateSavingsGoalAmount(reply.requests[k].goalId,
                                                       reply.requests[k].newAmount)
                   /\ reply' = [reply EXCEPT !.requests[k].pc = "done",
                                             !.requests[k].status = 200]
              ELSE /\ goals' = goals
                   /\ reply' = [reply EXCEPT !.requests[k].pc = "done",
                                             !.requests[k].status = 500]
    /\ UNCHANGED <<today, apiKey, users, transactions>>

\* all requests are answered; the next ones start from what the goal holds
NextDeposits ==
    /\ reply.op = "deposits"
    /\ reply.requests # <<>>
    /\ Served(reply.requests)
    /\ goals[1].currentSavedAmount <= MaxSavedHundreds * 10000
    /\ reply' = Deposits(goals[1].currentSavedAmount, <<>>)
    /\ UNCHANGED <<today, apiKey, users, goals, transactions>>

InitDeposits ==
    /\ today = "2026-11-06"
    /\ apiKey = TRUE
    /\ users = <<>>
    /\ goals = <<StoredGoal("g1", "u1", "Thailand trip")>>
    /\ transactions = <<>>
    /\ reply = Deposits(0, <<>>)

NextConcurrent ==
    \/ ReceiveDeposit
    \/ ReadGoal
    \/ WriteAmount
    \/ NextDeposits

SpecDeposits == InitDeposits /\ [][NextConcurrent]_vars

\* C26: when the deposit requests on a goal are answered, in whatever order
\* their steps were taken, the goal holds what it held before plus the
\* amount of every request; no deposit is lost
C26_NoDepositLost ==
    (reply.op = "deposits" /\ Served(reply.requests))
    => goals[1].currentSavedAmount = reply.initial + SumAmounts(reply.requests)

\* a request's write stores what that request read plus its own amount
WriteFollowsOwnRead ==
    [][\A k \in DOMAIN reply.requests :
           (reply.requests[k].pc = "write" /\ reply'.requests[k].pc = "done"
            /\ reply'.requests[k].status = 200)
           => goals'[1].currentSavedAmount = reply.requests[k].newAmount]_vars

-----------------------------------------------------------------------------
(* Specification SpecFaults: the chat route with store calls that fail.    *)
(* Every store call throws on an error of the store; in a branch the write *)
(* and the read of the goals that follows it stand in one try block, whose *)
(* catch sets the failure message of the branch                            *)

\* the store answers every call, the write of the branch throws, or the
\* write is done and the read of the goals after it throws
StoreFaults == {"none", "write", "read"}

\* the German text of the catch block of each branch
FailureMessage(branch) ==
    CASE branch = "deposit" ->
           "Die Einzahlung konnte ich nicht speichern. Bitte versuch es nochmal oder nenne mir den Zielnamen und den Betrag."
      [] branch = "rule-add" -> "Die Regel konnte ich nicht speichern. Bitte versuch es erneut."
      [] branch = "rule-remove" -> "Die Regel konnte ich nicht entfernen. Bitte versuch es erneut."
      [] branch = "delete" -> "Das Sparziel konnte ich nicht loeschen."
      [] branch = "complete" -> "Ich konnte das Sparziel nicht als erledigt markieren."
      [] branch = "update" -> "Konnte das Sparziel nicht aktualisieren."
      [] branch = "create" ->
           "Entschuldigung, ich konnte dein Sparziel nicht verarbeiten. Kannst du es nochmal anders formulieren?"
      [] OTHER -> ""

\* what the route answers and stores when the store fails at that call; the
\* general branch writes nothing
WithFault(response, fault) ==
    IF fault = "none" \/ response.branch = "general"
    THEN [status |-> 200, branch |-> response.branch, goals |-> response.goals,
          updatedGoals |-> response.updatedGoals, failure |-> ""]
    ELSE [status |-> 200, branch |-> response.branch,
          goals |-> IF fault = "write" THEN goals ELSE response.goals,
          updatedGoals |-> JUndef, failure |-> FailureMessage(response.branch)]

\* one message for each branch of the route
FaultUtterances ==
    {"Ich habe 200 CHF für Thailand trip gespart",
     "Neue Regel für Thailand trip: Kein Take-away",
     "Regel loeschen: Regel 1",
     "Lösche das Sparziel Thailand trip",
     "Thailand trip ist erreicht",
     "Bitte Thailand trip anpassen: 400 CHF bis März 2027",
     "Ich möchte 400 CHF für Ferien sparen",
     "Wie viel habe ich ausgegeben?"}

ChatWithFaults ==
    \E latestUserMessage \in FaultUtterances, fault \in StoreFaults :
        \E plain \in {ChatRoute("u1", "de", latestUserMessage, RemoteAnswers(Json(GoalObject)),
                                RemoteAnswers(NullContent))} :
            \E response \in {WithFault(plain, fault)} :
                /\ WithinBounds(response.goals)
                /\ goals' = response.goals
                /\ reply' = [op |-> "POST /api/chat", status |-> response.status,
                             userId |-> "u1", message |-> latestUserMessage,
                             branch |-> response.branch,
                             updatedGoals |-> response.updatedGoals,
                             fault |-> fault, failure |-> response.failure]
                /\ UNCHANGED <<today, apiKey, users, transactions>>

NextFaults == ChatWithFaults

SpecFaults == InitGoals /\ [][NextFaults]_vars

\* C28: whenever a branch of the chat route that changes goals (deposit,
\* rule added, rule removed, deletion, completion, update, creation) answers
\* with its failure message, the stored goals are the same as before the
\* request; a failed read of the goals after a write that was done is not
\* answered as a failed change
C28_FailureMeansUnchanged ==
    [][(reply'.op = "POST /api/chat" /\ reply'.failure # "") => goals' = goals]_vars

\* a failure message is answered only when a store call of the branch failed
FailureOnlyOnFault ==
    (reply.op = "POST /api/chat" /\ reply.failure # "") => reply.fault # "none"

-----------------------------------------------------------------------------
(* Specification SpecTagged: the analysis of histories whose categories    *)
(* tell salaries and other incomes. The classification stores whatever     *)
(* category the completion names ("erfinde eine kurze, prägnante           *)
(* Kategorie"), and PATCH /api/transactions stores whatever category the   *)
(* request names                                                           *)

\* a salary, a second job that only its category tells, a bonus, a purchase
TaggedTables ==
    {WithIds(<<PatternRow("2026-11-01", "ACME AG", 520000, "Lohn", FALSE),
               PatternRow("2026-11-03", "Coop", 4520, "Lebensmittel", FALSE)>>),
     WithIds(<<PatternRow("2026-11-02", "Velokurier Bern", 45000, "Nebenjob", FALSE),
               PatternRow("2026-11-03", "Coop", 4520, "Lebensmittel", FALSE)>>),
     WithIds(<<PatternRow("2026-11-04", "ACME AG Bonus", 100000, "Weitere Einnahmen", FALSE),
               PatternRow("2026-11-03", "Coop", 4520, "Lebensmittel", FALSE)>>),
     WithIds(<<PatternRow("2026-11-01", "ACME AG", 520000, "Lohn", FALSE),
               PatternRow("2026-11-02", "Velokurier Bern", 45000, "Nebenjob", FALSE),
               PatternRow("2026-09-03", "Coop", 4520, "Lebensmittel", FALSE)>>)}

InitTagged ==
    /\ today = "2026-11-06"
    /\ apiKey = TRUE
    /\ users \in {<<[id |-> "u1", name |-> "Demo", monthlyNetIncome |-> income]>> :
                     income \in BaselineIncomes}
    /\ goals = <<>>
    /\ transactions \in TaggedTables
    /\ reply = NoReply

NextTagged ==
    \/ GetAnalysis
    \/ PatchUser

SpecTagged == InitTagged /\ [][NextTagged]_vars

\* the transactions of the requested period
RowsInPeriod == SelectSeq(RequesterRows, LAMBDA t : InPeriod(t.date))

\* C29: every transaction in scope that is tagged as salary is income-like, so
\* that no transaction is added to the automatic ceiling as a salary and also
\* counted as an expense in used, byCategory and the patterns
C29_SalaryIsIncomeLike ==
    AnalysisAnswered
    => \A i \in DOMAIN RowsInPeriod :
           isSalaryTransaction(RowsInPeriod[i]) => isIncomeTransaction(RowsInPeriod[i])

\* an income-like transaction is never counted in used
IncomeNotCountedAsUsed ==
    AnalysisAnswered => Summary.usedBudget = SumAbs(ExpensesInPeriod)

-----------------------------------------------------------------------------
(* The sum of the categories *)

\* C30: in every budget summary the amounts of byCategory add up to used, and
\* each of them is at least 0, whatever the signs of the expenses in scope
C30_CategoriesAddUpToUsed ==
    AnalysisAnswered
    => /\ SumAmounts(Summary.byCategory) = Summary.usedBudget
       /\ \A i \in DOMAIN Summary.byCategory : Summary.byCategory[i].amount >= 0

\* the amounts of byCategory add up to the signed sum of the expenses
CategoriesAddUpSigned ==
    AnalysisAnswered => SumAmounts(Summary.byCategory) = SumAmounts(ExpensesInPeriod)

=============================================================================
